---- MODULE Spec2Model ----
(***************************************************************************)
(* Model of the DaVinci Resolve scripts in src/scripts.                    *)
(*                                                                         *)
(* Python strings are sequences of one-character strings, so that          *)
(* substring search, case folding, stripping and path splitting are        *)
(* computed character by character, as the interpreter computes them.      *)
(* Python numbers are tagged records: [t |-> "int", n |-> k] is the int k, *)
(* [t |-> "float", u |-> k] is the float k / FloatScale (a decimal with    *)
(* four fractional digits), PyNone is None.                                *)
(***************************************************************************)
EXTENDS Integers, Sequences, FiniteSets, TLC

VARIABLES call, fs, clip, hasReplaceClip, pool, pc, win, user_data, ret

vars == <<call, fs, clip, hasReplaceClip, pool, pc, win, user_data, ret>>

(***************************************************************************)
(* Python values                                                           *)
(***************************************************************************)
PyNone == [t |-> "none"]

PyStr(s) == [t |-> "str", s |-> s]

PyInt(n) == [t |-> "int", n |-> n]

\* ten-thousandths: the floats of the model are the decimals k / 10^4
FloatScale == 10 * 1000

PyFloat(u) == [t |-> "float", u |-> u]

PyBool(b) == [t |-> "bool", b |-> b]

\* bool(v) of the interpreter: None, False, 0, 0.0 and "" are falsy
Truthy(v) ==
    CASE v.t = "none" -> FALSE
      [] v.t = "int" -> v.n # 0
      [] v.t = "float" -> v.u # 0
      [] v.t = "str" -> v.s # <<>>
      [] v.t = "bool" -> v.b
      [] OTHER -> TRUE

\* dict.get(key, default)
Get(d, key, default) == IF key \in DOMAIN d THEN d[key] ELSE default

(***************************************************************************)
(* str methods                                                             *)
(***************************************************************************)
UpperChars == <<"A","B","C","D","E","F","G","H","I","J","K","L","M","N","O","P","Q","R","S","T","U","V","W","X","Y","Z">>

LowerChars == <<"a","b","c","d","e","f","g","h","i","j","k","l","m","n","o","p","q","r","s","t","u","v","w","x","y","z">>

LowerChar(c) ==
    IF \E i \in 1..Len(UpperChars) : UpperChars[i] = c
    THEN LowerChars[CHOOSE i \in 1..Len(UpperChars) : UpperChars[i] = c]
    ELSE c

UpperChar(c) ==
    IF \E i \in 1..Len(LowerChars) : LowerChars[i] = c
    THEN UpperChars[CHOOSE i \in 1..Len(LowerChars) : LowerChars[i] = c]
    ELSE c

IsAlpha(c) == \E i \in 1..Len(UpperChars) : UpperChars[i] = c \/ LowerChars[i] = c

\* str.lower()
Lower(s) == [i \in 1..Len(s) |-> LowerChar(s[i])]

\* str.title(): a letter is upper-cased after a non-letter, lower-cased after a letter
Title(s) ==
    [i \in 1..Len(s) |->
        IF i = 1 \/ ~IsAlpha(s[i - 1]) THEN UpperChar(s[i]) ELSE LowerChar(s[i])]

IsSpace(c) == c = " "

RECURSIVE LStrip(_)
LStrip(s) == IF s # <<>> /\ IsSpace(Head(s)) THEN LStrip(Tail(s)) ELSE s

RECURSIVE RStrip(_)
RStrip(s) ==
    IF s # <<>> /\ IsSpace(s[Len(s)]) THEN RStrip(SubSeq(s, 1, Len(s) - 1)) ELSE s

\* str.strip()
Strip(s) == RStrip(LStrip(s))

\* s.startswith(p)
StartsWith(s, p) == Len(p) <= Len(s) /\ SubSeq(s, 1, Len(p)) = p

\* p in s
Contains(s, p) == \E i \in 0..(Len(s) - Len(p)) : SubSeq(s, i + 1, i + Len(p)) = p

\* s.replace(old, ""): the non-overlapping occurrences of old, leftmost first
RECURSIVE Remove(_, _)
Remove(s, old) ==
    IF s = <<>> \/ old = <<>> THEN s
    ELSE IF StartsWith(s, old) THEN Remove(SubSeq(s, Len(old) + 1, Len(s)), old)
    ELSE <<Head(s)>> \o Remove(Tail(s), old)

\* re.compile(re.escape(old), re.IGNORECASE).sub("", s)
RECURSIVE RemoveIgnoreCase(_, _)
RemoveIgnoreCase(s, old) ==
    IF s = <<>> \/ old = <<>> THEN s
    ELSE IF StartsWith(Lower(s), Lower(old))
         THEN RemoveIgnoreCase(SubSeq(s, Len(old) + 1, Len(s)), old)
    ELSE <<Head(s)>> \o RemoveIgnoreCase(Tail(s), old)

RECURSIVE UntilSpace(_)
UntilSpace(s) ==
    IF s = <<>> \/ IsSpace(Head(s)) THEN <<>> ELSE <<Head(s)>> \o UntilSpace(Tail(s))

\* s.split()[0], for a string that holds a word
FirstWord(s) == UntilSpace(LStrip(s))

\* sep.join(parts)
RECURSIVE Join(_, _)
Join(sep, parts) ==
    IF parts = <<>> THEN <<>>
    ELSE IF Len(parts) = 1 THEN parts[1]
    ELSE parts[1] \o sep \o Join(sep, Tail(parts))

Digits == <<"0","1","2","3","4","5","6","7","8","9">>

\* str(n) of a natural number
RECURSIVE NatToStr(_)
NatToStr(n) ==
    IF n < 10 THEN <<Digits[n + 1]>> ELSE NatToStr(n \div 10) \o <<Digits[(n % 10) + 1]>>

\* str(n) of an int
IntToStr(n) == IF n < 0 THEN <<"-">> \o NatToStr(-n) ELSE NatToStr(n)

\* the fractional digits of k / 10^4 with the trailing zeros dropped, one kept
RECURSIVE FracDigits(_, _)
FracDigits(k, width) ==
    IF width = 1 \/ k % 10 # 0
    THEN [i \in 1..width |-> Digits[((k \div (10 ^ (width - i))) % 10) + 1]]
    ELSE FracDigits(k \div 10, width - 1)

\* str(x) of a float: the shortest decimal that reads back as x
FloatToStr(u) ==
    LET a == IF u < 0 THEN -u ELSE u
    IN (IF u < 0 THEN <<"-">> ELSE <<>>)
         \o NatToStr(a \div FloatScale) \o <<".">> \o FracDigits(a % FloatScale, 4)

\* f"{v}"
Format(v) ==
    CASE v.t = "str" -> v.s
      [] v.t = "int" -> IntToStr(v.n)
      [] v.t = "float" -> FloatToStr(v.u)
      [] OTHER -> <<"N","o","n","e">>

\* int(v) of a number: truncation towards zero
IntOf(v) ==
    IF v.t = "int" THEN v.n
    ELSE IF v.u >= 0 THEN v.u \div FloatScale ELSE -((-v.u) \div FloatScale)

LessThan(v, k) == IF v.t = "int" THEN v.n < k ELSE v.u < k * FloatScale

GreaterThan(v, k) == IF v.t = "int" THEN v.n > k ELSE v.u > k * FloatScale

\* a plausible slip: the reciprocal rounded to the nearest integer
IntReciprocal_Rounded(v) ==
    IF v.t = "int" THEN 1 \div v.n ELSE (2 * FloatScale + v.u) \div (2 * v.u)

\* int(1 / speed) for 0 < speed < 1; on the decimals k / 10^4 the float quotient
\* truncates to the exact quotient
IntReciprocal(v) == IF v.t = "int" THEN 1 \div v.n ELSE FloatScale \div v.u

(***************************************************************************)
(* The state.  call: the last call of a label-formatter function.  fs: the *)
(* files on disk, path -> content.  clip: the "File Path" of the media     *)
(* pool item under the playhead.  hasReplaceClip: whether the host's item  *)
(* has ReplaceClip.  pool: the paths given to ImportMedia.  pc, win,       *)
(* user_data: main()'s position, its dialog and the nonlocal user_data.    *)
(* ret: the outcome of the last add_frame or main.                         *)
(***************************************************************************)
NoCall == [op |-> "none"]

NoWin == [shown |-> FALSE]

NoRet == [op |-> "none"]

(***************************************************************************)
(* Label formatter (add_exif_frame_dv.py)                                  *)
(***************************************************************************)
\* a plausible slip: a speed of one second or more rendered as a whole number
FormatShutterSpeed_Whole(speed, speed_str) ==
    IF Truthy(speed_str) THEN speed_str.s
    ELSE IF ~Truthy(speed) THEN <<>>
    ELSE IF LessThan(speed, 0) THEN <<>>
    ELSE IF LessThan(speed, 1) THEN <<"1","/">> \o IntToStr(IntReciprocal(speed))
    ELSE IntToStr(IntOf(speed))

\* format_shutter_speed(speed, speed_str): speed a number, speed_str None or a str
FormatShutterSpeed(speed, speed_str) ==
    IF Truthy(speed_str) THEN speed_str.s
    ELSE IF ~Truthy(speed) THEN <<>>
    ELSE IF LessThan(speed, 0) THEN <<>>
    ELSE IF LessThan(speed, 1)
         THEN (IF GreaterThan(speed, 0)
               THEN <<"1","/">> \o IntToStr(IntReciprocal(speed))
               ELSE <<>>)
    ELSE Format(speed)

\* the corporate-suffix tokens of create_exif_string, in the order they are removed
Junk == << <<"C","O","R","P","O","R","A","T","I","O","N">>, <<"C","o","r","p","o","r","a","t","i","o","n">>, <<"I","n","c",".">>, <<"L","t","d",".">> >>

RECURSIVE StripJunk(_, _)
StripJunk(s, i) ==
    IF i > Len(Junk) THEN s ELSE StripJunk(Strip(Remove(s, Junk[i])), i + 1)

UnknownCamera == <<"U","n","k","n","o","w","n"," ","C","a","m","e","r","a">>

RawModel(exif) == Strip(Format(Get(exif, "Model", PyStr(UnknownCamera))))

MakeOf(exif) == Strip(Format(Get(exif, "Make", PyStr(<<>>))))

\* lines 113-116: the make's first word removed, when the make has one
WithoutFirstWord(model_clean, first_word) ==
    IF first_word # <<>> THEN Strip(RemoveIgnoreCase(model_clean, first_word))
    ELSE model_clean

\* line 119: if not model_clean: model_clean = raw_model
OrRawModel(model_clean, raw_model) == IF model_clean = <<>> THEN raw_model ELSE model_clean

\* model_clean: the model with the make, the make's first word and the junk removed
ModelClean(raw_model, make) ==
    OrRawModel(
        StripJunk(IF make # <<>>
                  THEN WithoutFirstWord(Strip(RemoveIgnoreCase(raw_model, make)),
                                        FirstWord(make))
                  ELSE raw_model,
                  1),
        raw_model)

SimpleMake(make) == IF make # <<>> THEN Title(FirstWord(make)) ELSE <<>>

\* lines 121-123: the make's first word put before the cleaned model unless the
\* model holds it
WithMake(simple_make, model_clean) ==
    IF simple_make # <<>> /\ ~Contains(Lower(model_clean), Lower(simple_make))
    THEN simple_make \o <<" ">> \o model_clean
    ELSE model_clean

\* camera_name
CameraName(exif) == WithMake(SimpleMake(MakeOf(exif)), ModelClean(RawModel(exif), MakeOf(exif)))

\* lines 124-125
OrLensInfo(exif, lens) ==
    IF lens = <<>>
    THEN Strip(Format(Get(exif, "LensModel", Get(exif, "LensInfo", PyStr(<<>>)))))
    ELSE lens

LensOf(exif) == OrLensInfo(exif, Strip(Format(Get(exif, "LensModel", PyStr(<<>>)))))

\* lines 126-127
WithLens(camera_name, lens) ==
    IF lens # <<>> /\ lens # camera_name
    THEN camera_name \o <<" ","/"," ">> \o lens
    ELSE camera_name

TopText(exif) == WithLens(CameraName(exif), LensOf(exif))

IsNumber(v) == v.t \in {"int", "float"}

\* fl_str: int() of a value that is no number raises, and the except branch formats it
FlStr(focal_length) ==
    IF ~Truthy(focal_length) THEN <<>>
    ELSE IF IsNumber(focal_length) THEN IntToStr(IntOf(focal_length)) \o <<"m","m">>
    ELSE Format(focal_length) \o <<"m","m">>

FnStr(f_number) == IF Truthy(f_number) THEN <<"f","/">> \o Format(f_number) ELSE <<>>

\* a plausible slip: the unit appended whether or not an exposure time is there
SsStr_Unguarded(exposure_time, exposure_time_str) ==
    FormatShutterSpeed(exposure_time, exposure_time_str) \o <<"s">>

SsStr(exposure_time, exposure_time_str) ==
    IF Truthy(exposure_time) \/ Truthy(exposure_time_str)
    THEN FormatShutterSpeed(exposure_time, exposure_time_str) \o <<"s">>
    ELSE <<>>

IsoStr(iso) == IF Truthy(iso) THEN <<"I","S","O"," ">> \o Format(iso) ELSE <<>>

NonEmpty(p) == p # <<>>

SettingsStr(exif) ==
    Join(<<" ","|"," ">>,
         SelectSeq(<< FlStr(Get(exif, "FocalLength", PyInt(0))),
                      FnStr(Get(exif, "FNumber", PyInt(0))),
                      SsStr(Get(exif, "ExposureTime", PyInt(0)),
                            Get(exif, "ExposureTimeString", PyNone)),
                      IsoStr(Get(exif, "ISOSpeedRatings", PyInt(0))) >>,
                   NonEmpty))

\* create_exif_string(exif): (top_text, settings_str)
CreateExifString(exif) == <<TopText(exif), SettingsStr(exif)>>

(***************************************************************************)
(* The inputs the label formatter is applied to                            *)
(***************************************************************************)
\* exposure times: 0, 0.0, 1/2000 s, 1/250 s, 0.3 s, 0.6 s, 1 s, 2 s (float and int),
\* 2.5 s, 30 s, and negative values
Speeds ==
    {PyInt(0), PyFloat(0), PyFloat(5), PyFloat(40), PyFloat(3000), PyFloat(6000),
     PyFloat(10000), PyFloat(20000), PyInt(2), PyFloat(25000), PyFloat(300000),
     PyFloat(-5), PyFloat(-20000), PyInt(-1)}

SpeedStrs == {PyNone, PyStr(<<>>), PyStr(<<"1","/","2","0","0","0">>)}

Absent == [t |-> "absent"]

Models ==
    {Absent, PyStr(<<"C","a","n","o","n"," ","E","O","S"," ","R","5">>), PyStr(<<"C","a","n","o","n"," ","C","a","n","o","n"," ","E","O","S"," ","R","5">>), PyStr(<<"C","a","n","o","n"," ","C","a","n","o","n">>),
     PyStr(<<"N","I","K","O","N"," ","D","8","5","0">>), PyStr(<<" "," ">>), PyStr(<<"I","L","C","E","-","7","M","3">>)}

Makes == {Absent, PyStr(<<"C","a","n","o","n">>), PyStr(<<"N","I","K","O","N"," ","C","O","R","P","O","R","A","T","I","O","N">>), PyStr(<<"s","o","n","y">>)}

Lenses == {Absent, PyStr(<<"R","F","2","4","-","7","0","m","m">>)}

FocalLengths == {Absent, PyFloat(0), PyFloat(505000)}

FNumbers == {PyFloat(0), PyFloat(28000)}

Isos == {Absent, PyInt(0), PyInt(100), PyStr(<<"0">>)}

ExposureTimes == {Absent, PyInt(0), PyFloat(0), PyFloat(5), PyFloat(20000), PyFloat(-5000)}

ExposureTimeStrings == {Absent, PyStr(<<>>), PyStr(<<"1","/","2","0","0","0">>)}

ExifKeys ==
    <<"Model", "Make", "LensModel", "FocalLength", "FNumber", "ISOSpeedRatings",
      "ExposureTime", "ExposureTimeString">>

\* the mapping that holds vals[i] under ExifKeys[i] where vals[i] is a value
MakeExif(vals) ==
    LET present == {i \in 1..Len(ExifKeys) : vals[i] # Absent}
    IN [k \in {ExifKeys[i] : i \in present} |->
          vals[CHOOSE i \in present : ExifKeys[i] = k]]

\* every camera (model, make, lens) with no settings and with one set of settings,
\* and every combination of settings with no camera and with one camera
Exifs ==
    {MakeExif(<<mo, ma, le, fl, PyFloat(0), Absent, et, Absent>>) :
        mo \in Models, ma \in Makes, le \in Lenses,
        fl \in {Absent, PyFloat(505000)}, et \in {Absent, PyFloat(5)}}
    \cup
    {MakeExif(<<mo, ma, Absent, fl, fn, iso, et, ets>>) :
        mo \in {Absent, PyStr(<<"C","a","n","o","n"," ","E","O","S"," ","R","5">>)}, ma \in {Absent, PyStr(<<"C","a","n","o","n">>)},
        fl \in FocalLengths, fn \in FNumbers, iso \in Isos,
        et \in ExposureTimes, ets \in ExposureTimeStrings}

pipelineVars == <<fs, clip, hasReplaceClip, pool, pc, win, user_data, ret>>

\* no file, no clip, main() not running
PipelineIdle ==
    /\ fs = <<>>
    /\ clip = <<>>
    /\ hasReplaceClip = TRUE
    /\ pool = {}
    /\ pc = "idle"
    /\ win = NoWin
    /\ user_data = PyNone
    /\ ret = NoRet

\* the call to make: a function of the label formatter and its arguments
InitLabel ==
    /\ \/ \E speed \in Speeds, speed_str \in SpeedStrs :
              call = [op |-> "format_shutter_speed", done |-> FALSE,
                      speed |-> speed, speed_str |-> speed_str]
       \/ \E exif \in Exifs :
              call = [op |-> "create_exif_string", done |-> FALSE, exif |-> exif]
    /\ PipelineIdle

CallFormatShutterSpeed ==
    /\ call.op = "format_shutter_speed" /\ ~call.done
    /\ call' = [op |-> "format_shutter_speed", done |-> TRUE,
                speed |-> call.speed, speed_str |-> call.speed_str,
                result |-> FormatShutterSpeed(call.speed, call.speed_str)]
    /\ UNCHANGED pipelineVars

CallCreateExifString ==
    /\ call.op = "create_exif_string" /\ ~call.done
    /\ call' = [op |-> "create_exif_string", done |-> TRUE, exif |-> call.exif,
                camera_name |-> CameraName(call.exif),
                top_text |-> CreateExifString(call.exif)[1],
                settings_str |-> CreateExifString(call.exif)[2]]
    /\ UNCHANGED pipelineVars

NextLabel == CallFormatShutterSpeed \/ CallCreateExifString

SpecLabel == InitLabel /\ [][NextLabel]_vars

(***************************************************************************)
(* Paths (os.path) and files                                               *)
(***************************************************************************)
\* s.rfind(c), counted from 1; 0 when c is not in s
RFind(s, c) ==
    IF \E i \in 1..Len(s) : s[i] = c
    THEN CHOOSE i \in 1..Len(s) : s[i] = c /\ \A j \in (i + 1)..Len(s) : s[j] # c
    ELSE 0

\* os.path.splitext(p): (root, ext); a dot that only follows dots in the last
\* component starts no extension
Splitext(p) ==
    LET sepIndex == RFind(p, "/")
        dotIndex == RFind(p, ".")
    IN IF dotIndex > sepIndex /\ \E k \in (sepIndex + 1)..(dotIndex - 1) : p[k] # "."
       THEN <<SubSeq(p, 1, dotIndex - 1), SubSeq(p, dotIndex, Len(p))>>
       ELSE <<p, <<>>>>

RasterExts == { <<".","j","p","g">>, <<".","j","p","e","g">>, <<".","p","n","g">>, <<".","t","i","f">>, <<".","t","i","f","f">> }

RawExts == { <<".","a","r","w">>, <<".","c","r","2">>, <<".","c","r","3">>, <<".","n","e","f">>, <<".","d","n","g">>, <<".","r","a","f">>, <<".","o","r","f">> }

\* s.replace(old, new)
RECURSIVE Replace(_, _, _)
Replace(s, old, new) ==
    IF s = <<>> \/ old = <<>> THEN s
    ELSE IF StartsWith(s, old) THEN new \o Replace(SubSeq(s, Len(old) + 1, Len(s)), old, new)
    ELSE <<Head(s)>> \o Replace(Tail(s), old, new)

\* dict.update
Update(d, e) == [k \in DOMAIN d \cup DOMAIN e |-> IF k \in DOMAIN e THEN e[k] ELSE d[k]]

EmptyDict == [k \in {} |-> PyNone]

(***************************************************************************)
(* A file's content.  fmt: what the decoders make of the bytes ("raster":  *)
(* Image.open decodes it, "raw": rawpy decodes it, "garbage": neither).    *)
(* w, h: the stored size.  ifd0, exif_ifd: the EXIF tags of a raster file, *)
(* tag number -> value, in the main directory and in the Exif directory.   *)
(* legacy: whether the image class has _getexif (JPEG).  raw_tags: what    *)
(* exifread.process_file returns, in its iteration order.  layers: how     *)
(* many borders the picture carries.  frame: what add_frame drew, for a    *)
(* file add_frame wrote.                                                   *)
(***************************************************************************)
NoFrame == [by |-> "none"]

File(fmt, w, h, ifd0, exif_ifd, legacy, raw_tags) ==
    [fmt |-> fmt, w |-> w, h |-> h, ifd0 |-> ifd0, exif_ifd |-> exif_ifd,
     legacy |-> legacy, raw_tags |-> raw_tags, layers |-> 0, frame |-> NoFrame]

\* PIL.ExifTags.TAGS on the tags of the model
TagMake == 271
TagModel == 272
TagOrientation == 274
TagExposureTime == 33434
TagFNumber == 33437
TagExifOffset == 34665
TagISOSpeedRatings == 34855
TagFocalLength == 37386
TagLensModel == 42036
TagPadding == 59932

TAGS ==
    (TagMake :> "Make") @@ (TagModel :> "Model") @@ (TagOrientation :> "Orientation")
    @@ (TagExposureTime :> "ExposureTime") @@ (TagFNumber :> "FNumber")
    @@ (TagExifOffset :> "ExifOffset") @@ (TagISOSpeedRatings :> "ISOSpeedRatings")
    @@ (TagFocalLength :> "FocalLength") @@ (TagLensModel :> "LensModel")

\* ExifTags.TAGS.get(tag, tag); a tag without a name stays a number, written here
\* as its decimal string
Decoded(tag) == IF tag \in DOMAIN TAGS THEN TAGS[tag] ELSE ToString(tag)

\* for tag, value in info.items(): exif_data[decoded] = value
DecodeAll(info) ==
    [name \in {Decoded(t) : t \in DOMAIN info} |->
        info[CHOOSE t \in DOMAIN info : Decoded(t) = name]]

\* lines 48-55: the tags of _getexif() added when there is no FNumber yet; an
\* image class without _getexif raises, which is passed over
WithLegacy(file, exif_data) ==
    IF ~Truthy(Get(exif_data, "FNumber", PyNone)) /\ file.legacy
    THEN Update(exif_data, DecodeAll(Update(file.ifd0, file.exif_ifd)))
    ELSE exif_data

\* get_exif_data_pillow(image): every tag of getexif(), and when that holds no
\* FNumber every tag of _getexif() as well
GetExifDataPillow(file) ==
    IF file.ifd0 = EmptyDict THEN EmptyDict
    ELSE WithLegacy(file, DecodeAll(file.ifd0))

\* an exifread tag: its name, str(tag) and values[0] when that is a Ratio
RawTag(k, printable, ratio) == [k |-> k, printable |-> printable, ratio |-> ratio]

NotARatio == <<>>

\* get_tag_val(search_keys): the first tag, in iteration order, whose name holds
\* one of the search keys
MatchingTags(tags, search_keys) ==
    {i \in 1..Len(tags) : \E j \in 1..Len(search_keys) : Contains(tags[i].k, search_keys[j])}

FirstOf(tags, hits) ==
    IF hits = {} THEN PyNone ELSE tags[CHOOSE i \in hits : \A j \in hits : i <= j]

GetTagVal(tags, search_keys) == FirstOf(tags, MatchingTags(tags, search_keys))

\* float(val.num) / float(val.den) as a decimal of the model
RatioToFloat(ratio) ==
    IF ratio[1] >= 0 THEN PyFloat((ratio[1] * FloatScale) \div ratio[2])
    ELSE PyFloat(-((-ratio[1] * FloatScale) \div ratio[2]))

\* val.num, val.den or the division raises: values[0] is no Ratio, or den is 0
RatioRaises(tag) == tag # PyNone /\ (tag.ratio = NotARatio \/ tag.ratio[2] = 0)

\* if tag: data[key] = str(tag)
StrEntry(key, tag) == IF tag = PyNone THEN EmptyDict ELSE (key :> PyStr(tag.printable))

\* if tag and hasattr(tag, "values"): data[key] = float(val.num) / float(val.den)
FloatEntry(key, tag) == IF tag = PyNone THEN EmptyDict ELSE (key :> RatioToFloat(tag.ratio))

\* a plausible slip: the float stored alone
ExposureEntries_FloatOnly(tag) ==
    IF tag = PyNone THEN EmptyDict ELSE ("ExposureTime" :> RatioToFloat(tag.ratio))

\* lines 87-93: a unit fraction keeps its "1/N" beside the float
ExposureEntries(tag) ==
    IF tag = PyNone THEN EmptyDict
    ELSE IF tag.ratio[1] = 1 /\ tag.ratio[2] > 1
    THEN ("ExposureTimeString" :> PyStr(<<"1","/">> \o IntToStr(tag.ratio[2])))
         @@ ("ExposureTime" :> RatioToFloat(tag.ratio))
    ELSE ("ExposureTime" :> RatioToFloat(tag.ratio))

GetExifDataRawRaises(tags) ==
    \/ RatioRaises(GetTagVal(tags, << <<"E","X","I","F"," ","F","o","c","a","l","L","e","n","g","t","h">>, <<"F","o","c","a","l","L","e","n","g","t","h">> >>))
    \/ RatioRaises(GetTagVal(tags, << <<"E","X","I","F"," ","F","N","u","m","b","e","r">>, <<"F","N","u","m","b","e","r">>, <<"A","p","e","r","t","u","r","e","V","a","l","u","e">> >>))
    \/ RatioRaises(GetTagVal(tags, << <<"E","X","I","F"," ","E","x","p","o","s","u","r","e","T","i","m","e">>, <<"E","x","p","o","s","u","r","e","T","i","m","e">>,
                                      <<"S","h","u","t","t","e","r","S","p","e","e","d","V","a","l","u","e">> >>))

\* get_exif_data_raw(file_path), given the tags exifread read, when nothing raises
GetExifDataRaw(tags) ==
    StrEntry("Model", GetTagVal(tags, << <<"I","m","a","g","e"," ","M","o","d","e","l">>, <<"M","o","d","e","l">> >>))
    @@ StrEntry("Make", GetTagVal(tags, << <<"I","m","a","g","e"," ","M","a","k","e">>, <<"M","a","k","e">> >>))
    @@ StrEntry("LensModel",
                GetTagVal(tags, << <<"E","X","I","F"," ","L","e","n","s","M","o","d","e","l">>, <<"L","e","n","s","M","o","d","e","l">>, <<"L","e","n","s","I","n","f","o">>, <<"L","e","n","s">> >>))
    @@ FloatEntry("FocalLength", GetTagVal(tags, << <<"E","X","I","F"," ","F","o","c","a","l","L","e","n","g","t","h">>, <<"F","o","c","a","l","L","e","n","g","t","h">> >>))
    @@ FloatEntry("FNumber",
                  GetTagVal(tags, << <<"E","X","I","F"," ","F","N","u","m","b","e","r">>, <<"F","N","u","m","b","e","r">>, <<"A","p","e","r","t","u","r","e","V","a","l","u","e">> >>))
    @@ StrEntry("ISOSpeedRatings",
                GetTagVal(tags, << <<"E","X","I","F"," ","I","S","O","S","p","e","e","d","R","a","t","i","n","g","s">>, <<"I","S","O","S","p","e","e","d">>, <<"I","S","O">> >>))
    @@ ExposureEntries(GetTagVal(tags, << <<"E","X","I","F"," ","E","x","p","o","s","u","r","e","T","i","m","e">>, <<"E","x","p","o","s","u","r","e","T","i","m","e">>,
                                          <<"S","h","u","t","t","e","r","S","p","e","e","d","V","a","l","u","e">> >>))

(***************************************************************************)
(* open_image and add_frame                                                *)
(***************************************************************************)
NoImage == PyNone

Orientation(file) == Get(file.ifd0, TagOrientation, PyInt(1)).n

Without(d, key) == [k \in DOMAIN d \ {key} |-> d[k]]

HasExif(file) == file.ifd0 # EmptyDict \/ file.exif_ifd # EmptyDict

\* ImageOps.exif_transpose(img): orientations 5 to 8 turn the picture by a quarter,
\* and a transposed picture no longer carries the Orientation tag
Transpose(file, o) ==
    [w |-> IF o \in 5..8 THEN file.h ELSE file.w,
     h |-> IF o \in 5..8 THEN file.w ELSE file.h,
     exif |-> IF HasExif(file)
              THEN [ifd0 |-> IF o \in 2..8 THEN Without(file.ifd0, TagOrientation)
                             ELSE file.ifd0,
                    exif_ifd |-> file.exif_ifd]
              ELSE PyNone,
     layers |-> file.layers]

Transposed(file) == Transpose(file, Orientation(file))

\* Image.fromarray(raw.postprocess(...)): no info, so no "exif"
FromArray(file) == [w |-> file.w, h |-> file.h, exif |-> PyNone, layers |-> file.layers]

Opened(raised, img, exif) == [raised |-> raised, img |-> img, exif |-> exif]

ExtOf(file_path) == Lower(Splitext(file_path)[2])

Decodes(files, file_path, fmt) == file_path \in DOMAIN files /\ files[file_path].fmt = fmt

\* lines 146-152 on a file Image.open may fail to decode
OpenRaster(files, file_path) ==
    IF Decodes(files, file_path, "raster")
    THEN Opened(FALSE, Transposed(files[file_path]), GetExifDataPillow(files[file_path]))
    ELSE Opened(TRUE, NoImage, EmptyDict)

\* lines 154-160: any failure of the raw decoder or of the tag reader gives (None, {})
OpenRaw(files, file_path) ==
    IF Decodes(files, file_path, "raw")
    THEN IF GetExifDataRawRaises(files[file_path].raw_tags)
         THEN Opened(FALSE, NoImage, EmptyDict)
         ELSE Opened(FALSE, FromArray(files[file_path]),
                     GetExifDataRaw(files[file_path].raw_tags))
    ELSE Opened(FALSE, NoImage, EmptyDict)

\* a plausible slip: an extension outside both lists handed to the raster reader
OpenImage_AnyExtension(files, file_path) ==
    IF ExtOf(file_path) \in RawExts THEN OpenRaw(files, file_path)
    ELSE OpenRaster(files, file_path)

\* open_image(file_path): (img, exif), or an exception.  Image.open stands outside
\* any try; the raw branch is wrapped in try/except
OpenImage(files, file_path) ==
    IF ExtOf(file_path) \in RasterExts THEN OpenRaster(files, file_path)
    ELSE IF ExtOf(file_path) \in RawExts THEN OpenRaw(files, file_path)
    ELSE Opened(FALSE, NoImage, EmptyDict)

\* bool(user_options): None and the empty dict are falsy
HasOptions(user_options) == user_options # PyNone /\ DOMAIN user_options # {}

NoExifData == <<"N","o"," ","E","x","i","f"," ","D","a","t","a">>

\* lines 172-173
OrNoExifData(label) ==
    IF label[1] = UnknownCamera /\ label[2] = <<>> THEN <<label[1], NoExifData>> ELSE label

\* lines 167-173: the two lines of text, from the options or from the metadata
LabelTexts(exif, user_options) ==
    IF HasOptions(user_options) /\ "camera_text" \in DOMAIN user_options
    THEN <<user_options["camera_text"].s, user_options["settings_text"].s>>
    ELSE OrNoExifData(CreateExifString(exif))

\* user_options["settings_text"] raises KeyError
LabelTextsRaises(user_options) ==
    /\ HasOptions(user_options)
    /\ "camera_text" \in DOMAIN user_options
    /\ "settings_text" \notin DOMAIN user_options

White == <<255, 255, 255>>
Black == <<0, 0, 0>>
DarkGrey == <<80, 80, 80>>
LightGrey == <<200, 200, 200>>

\* a plausible slip: the text left dark on the black border
Palette_DarkText(user_options) ==
    IF HasOptions(user_options)
       /\ Get(user_options, "border_color", PyNone) = PyStr(<<"B","l","a","c","k">>)
    THEN <<Black, Black, DarkGrey>>
    ELSE <<White, Black, DarkGrey>>

\* lines 175-185: (border_color, text_color_main, text_color_sub)
Palette(user_options) ==
    IF HasOptions(user_options)
       /\ Get(user_options, "border_color", PyNone) = PyStr(<<"B","l","a","c","k">>)
    THEN <<Black, White, LightGrey>>
    ELSE <<White, Black, DarkGrey>>

DefaultBorderSize == 5

\* lines 178, 186-189: border_ratio as a float; float(val) of a value that is no
\* number raises and the default ratio stays
RatioOf(val) ==
    IF val.t = "int" THEN PyFloat(val.n * (FloatScale \div 100))
    ELSE PyFloat(DefaultBorderSize * (FloatScale \div 100))

BorderRatio(user_options) ==
    RatioOf(IF HasOptions(user_options)
            THEN Get(user_options, "border_size", PyInt(DefaultBorderSize))
            ELSE PyInt(DefaultBorderSize))

\* lines 179, 190
PolaroidBottom(user_options) ==
    IF HasOptions(user_options)
    THEN Truthy(Get(user_options, "polaroid_style", PyBool(TRUE)))
    ELSE TRUE

Min(a, b) == IF a <= b THEN a ELSE b

\* a plausible slip: the product rounded to the nearest integer
IntTimes_Rounded(x, r) == (2 * x * r.u + FloatScale) \div (2 * FloatScale)

\* int(x * r) of an int x and a float r >= 0
IntTimes(x, r) == (x * r.u) \div FloatScale

\* lines 195-196
BorderBottom(border_uniform, polaroid_bottom) ==
    IF polaroid_bottom
    THEN IntTimes(border_uniform, PyFloat(36 * (FloatScale \div 10)))
    ELSE border_uniform

\* a plausible slip: the canvas given the same border on all four sides
Sizes_EvenCanvas(width, height, border_uniform, border_bottom) ==
    [border_uniform |-> border_uniform,
     border_bottom |-> border_bottom,
     new_width |-> width + (border_uniform * 2),
     new_height |-> height + (border_uniform * 2),
     paste |-> <<border_uniform, border_uniform>>]

\* lines 198-201
Sizes(width, height, border_uniform, border_bottom) ==
    [border_uniform |-> border_uniform,
     border_bottom |-> border_bottom,
     new_width |-> width + (border_uniform * 2),
     new_height |-> height + border_uniform + border_bottom,
     paste |-> <<border_uniform, border_uniform>>]

Geometry(width, height, base_dim, border_ratio, polaroid_bottom) ==
    Sizes(width, height, IntTimes(base_dim, border_ratio),
          BorderBottom(IntTimes(base_dim, border_ratio), polaroid_bottom))

\* a plausible slip: the border taken from the longer side
FrameGeometry_LongerSide(width, height, border_ratio, polaroid_bottom) ==
    Geometry(width, height, IF width >= height THEN width ELSE height, border_ratio,
             polaroid_bottom)

\* lines 192-201: the borders, the canvas and where the picture is pasted
FrameGeometry(width, height, border_ratio, polaroid_bottom) ==
    Geometry(width, height, Min(width, height), border_ratio, polaroid_bottom)

Framed == <<"_","f","r","a","m","e","d",".","j","p","g">>

\* a plausible slip: the suffix put after the whole path
OutputPath_KeepsExtension(image_path) == image_path \o Framed

\* a plausible slip: the JPEG written under the source's own name
OutputPath_InPlace(image_path) == Splitext(image_path)[1] \o <<".","j","p","g">>

\* lines 235-236
OutputPath(image_path) == Splitext(image_path)[1] \o Framed

Quality == 95

\* lines 204, 221-233: the two lines drawn, the settings with their separators widened
Drawn(texts) ==
    IF texts[1] # <<>> \/ texts[2] # <<>>
    THEN <<texts[1], Replace(texts[2], <<" ","|"," ">>, <<" "," "," ">>)>>
    ELSE <<<<>>, <<>>>>

\* lines 175-237: the file add_frame saves for the opened picture, the EXIF block
\* of the source passed on as it is
Canvas(img, g, palette, texts, drawn, image_path, user_options) ==
    [fmt |-> "raster", w |-> g.new_width, h |-> g.new_height,
     ifd0 |-> IF img.exif = PyNone THEN EmptyDict ELSE img.exif.ifd0,
     exif_ifd |-> IF img.exif = PyNone THEN EmptyDict ELSE img.exif.exif_ifd,
     legacy |-> TRUE, raw_tags |-> <<>>, layers |-> img.layers + 1,
     frame |-> [by |-> "add_frame", src |-> image_path, options |-> user_options,
                img_size |-> <<img.w, img.h>>,
                border_uniform |-> g.border_uniform,
                border_bottom |-> g.border_bottom,
                paste |-> g.paste,
                border_color |-> palette[1],
                text_color_main |-> palette[2],
                text_color_sub |-> palette[3],
                camera_text |-> texts[1],
                settings_text |-> texts[2],
                main_line |-> drawn[1],
                sub_line |-> drawn[2],
                quality |-> Quality]]

FramedFile(img, texts, image_path, user_options) ==
    Canvas(img,
           FrameGeometry(img.w, img.h, BorderRatio(user_options),
                         PolaroidBottom(user_options)),
           Palette(user_options), texts, Drawn(texts), image_path, user_options)

Outcome(raised, output, files, opened) ==
    [raised |-> raised, output |-> output, files |-> files, opened |-> opened]

\* the directory part of a path: all up to its last "/"
DirOf(p) == SubSeq(p, 1, RFind(p, "/"))

\* the directories no file can be created in
ReadOnlyDirs == { <<"/","r","o","/">> }

\* line 237: new_img.save raises where the file cannot be created
SaveRaises(output_path) == DirOf(output_path) \in ReadOnlyDirs

\* lines 165-238 of add_frame, given what open_image returned; nothing in add_frame
\* catches an exception
Frame(files, image_path, user_options, opened) ==
    IF opened.raised THEN Outcome(TRUE, PyNone, files, opened)
    ELSE IF opened.img = NoImage THEN Outcome(FALSE, PyNone, files, opened)
    ELSE IF LabelTextsRaises(user_options) THEN Outcome(TRUE, PyNone, files, opened)
    ELSE IF SaveRaises(OutputPath(image_path)) THEN Outcome(TRUE, PyNone, files, opened)
    ELSE Outcome(FALSE, PyStr(OutputPath(image_path)),
                 Update(files,
                        OutputPath(image_path) :>
                            FramedFile(opened.img, LabelTexts(opened.exif, user_options),
                                       image_path, user_options)),
                 opened)

\* add_frame(image_path, user_options) on the files `files`: whether it raises, the
\* path it returns (None when there is nothing to frame) and the files afterwards
AddFrame(files, image_path, user_options) ==
    Frame(files, image_path, user_options, OpenImage(files, image_path))
(***************************************************************************)
(* The files and options the pipeline is run on                            *)
(***************************************************************************)
\* a camera JPEG: make and model in the main directory, the exposure in the Exif one
CameraIfd0 ==
    (TagMake :> PyStr(<<"C","a","n","o","n">>)) @@ (TagModel :> PyStr(<<"C","a","n","o","n"," ","E","O","S"," ","R","5">>))
    @@ (TagOrientation :> PyInt(1)) @@ (TagExifOffset :> PyInt(204))

CameraExifIfd ==
    (TagExposureTime :> PyFloat(5)) @@ (TagFNumber :> PyFloat(28000))
    @@ (TagISOSpeedRatings :> PyInt(100)) @@ (TagFocalLength :> PyFloat(500000))
    @@ (TagLensModel :> PyStr(<<"R","F","2","4","-","7","0","m","m">>))

CameraJpeg == File("raster", 1000, 800, CameraIfd0, CameraExifIfd, TRUE, <<>>)

\* a picture with no EXIF at all
PlainPicture == File("raster", 30, 40, EmptyDict, EmptyDict, FALSE, <<>>)

\* a picture turned by a quarter whose EXIF names no camera and no exposure
EditedPicture ==
    File("raster", 40, 30,
         (TagOrientation :> PyInt(6)) @@ (TagPadding :> PyInt(0)),
         EmptyDict, FALSE, <<>>)

\* a picture whose Model tag is blank
BlankModelPicture ==
    File("raster", 40, 30, (TagModel :> PyStr(<<" "," ">>)), EmptyDict, TRUE, <<>>)

CameraRawTags ==
    << RawTag(<<"I","m","a","g","e"," ","M","a","k","e">>, <<"C","a","n","o","n">>, NotARatio),
       RawTag(<<"I","m","a","g","e"," ","M","o","d","e","l">>, <<"C","a","n","o","n"," ","E","O","S"," ","R","5">>, NotARatio),
       RawTag(<<"E","X","I","F"," ","E","x","p","o","s","u","r","e","T","i","m","e">>, <<"1","/","2","0","0","0">>, <<1, 2000>>),
       RawTag(<<"E","X","I","F"," ","F","N","u","m","b","e","r">>, <<"1","4","/","5">>, <<14, 5>>),
       RawTag(<<"E","X","I","F"," ","I","S","O","S","p","e","e","d","R","a","t","i","n","g","s">>, <<"1","0","0">>, NotARatio),
       RawTag(<<"E","X","I","F"," ","F","o","c","a","l","L","e","n","g","t","h">>, <<"5","0">>, <<50, 1>>),
       RawTag(<<"E","X","I","F"," ","L","e","n","s","M","o","d","e","l">>, <<"R","F","2","4","-","7","0","m","m">>, NotARatio) >>

CameraRaw == File("raw", 1000, 800, EmptyDict, EmptyDict, FALSE, CameraRawTags)

\* a raw file whose maker notes carry other tags and a two-second exposure
OtherRawTags ==
    << RawTag(<<"I","m","a","g","e"," ","O","r","i","e","n","t","a","t","i","o","n">>, <<"H","o","r","i","z","o","n","t","a","l"," ","(","n","o","r","m","a","l",")">>, NotARatio),
       RawTag(<<"E","X","I","F"," ","E","x","p","o","s","u","r","e","T","i","m","e">>, <<"2">>, <<2, 1>>),
       RawTag(<<"M","a","k","e","r","N","o","t","e"," ","Q","u","a","l","i","t","y">>, <<"R","A","W">>, NotARatio) >>

OtherRaw == File("raw", 40, 30, EmptyDict, EmptyDict, FALSE, OtherRawTags)

\* a raw file whose aperture is stored as a plain number, not a Ratio
OddRaw ==
    File("raw", 40, 30, EmptyDict, EmptyDict, FALSE,
         << RawTag(<<"E","X","I","F"," ","F","N","u","m","b","e","r">>, <<"4">>, NotARatio) >>)

Garbage == File("garbage", 0, 0, EmptyDict, EmptyDict, FALSE, <<>>)

Source(path, content) == [path |-> path, content |-> content]

Sources ==
    { Source(<<"/","a","/","b","/","p","h","o","t","o",".","j","p","g">>, CameraJpeg),
      Source(<<"/","a","/","b","/","p","h","o","t","o",".","C","R","2">>, CameraRaw),
      Source(<<"/","a","/","s","c","a","n",".","P","N","G">>, PlainPicture),
      Source(<<"/","a","/","e","d","i","t",".","t","i","f">>, EditedPicture),
      Source(<<"/","a","/","b","l","a","n","k",".","j","p","e","g">>, BlankModelPicture),
      Source(<<"/","a","/","o","t","h","e","r",".","d","n","g">>, OtherRaw),
      Source(<<"/","a","/","o","d","d",".","n","e","f">>, OddRaw),
      Source(<<"/","a","/","b","a","d",".","j","p","g">>, Garbage),
      Source(<<"/","a","/","b","a","d",".","a","r","w">>, Garbage),
      Source(<<"/","a","/","a","n","i","m",".","g","i","f">>, PlainPicture),
      Source(<<"/","a",".","b","/","p","h","o","t","o">>, CameraJpeg),
      Source(<<"/","a","/",".","j","p","g">>, PlainPicture),
      Source(<<"/","x","_","f","r","a","m","e","d","/","p",".","j","p","g">>, CameraJpeg) }

\* paths no file is at
MissingPaths == { <<"/","a","/","n","o","n","e",".","j","p","g">>, <<"/","a","/","n","o","n","e",".","r","a","f">>, <<"/","a","/","n","o","n","e",".","t","x","t">> }

SliderMinimum == 0
SliderMaximum == 20
SliderDefault == 5

\* the slider positions tried: the default, the minimum, and the SliderStops highest
SliderStops == 1

SliderValues ==
    {SliderDefault, SliderMinimum}
    \cup {v \in SliderMinimum..SliderMaximum : v > SliderMaximum - SliderStops}

\* how many changes the user makes in the dialog before leaving it
MaxEdits == 2

\* what the user may type into the two line edits
TypedCamera == <<"M","y"," ","C","a","m","e","r","a">>

TypedSettings == <<"3","5","m","m"," ","|"," ","f","/","2">>

\* user_options of a direct call: none, empty, the defaults spelled out, a colour
\* with a size that is no number, a camera text alone, two empty texts
DirectOptions ==
    { PyNone, EmptyDict,
      ("border_size" :> PyInt(DefaultBorderSize)) @@ ("polaroid_style" :> PyBool(TRUE)),
      ("border_color" :> PyStr(<<"B","l","a","c","k">>)) @@ ("border_size" :> PyStr(<<"w","i","d","e">>)),
      ("camera_text" :> PyStr(TypedCamera)),
      ("camera_text" :> PyStr(<<>>)) @@ ("settings_text" :> PyStr(<<>>))
         @@ ("polaroid_style" :> PyBool(FALSE)) @@ ("border_size" :> PyInt(10)) }

\* the paths add_frame is called on directly: the files the run starts with
SourcePaths == {src.path : src \in Sources}

(***************************************************************************)
(* The pipeline: direct calls of add_frame, and main() with its dialog     *)
(***************************************************************************)
Init ==
    /\ call = NoCall
    /\ fs \in {(src.path :> src.content) : src \in Sources}
    /\ clip \in DOMAIN fs \cup {<<>>}
    /\ hasReplaceClip \in BOOLEAN
    /\ pool = {}
    /\ pc = "idle"
    /\ win = NoWin
    /\ user_data = PyNone
    /\ ret = NoRet

\* what the last run of add_frame or main() was given and how it ended
Ret(op, image_path, user_options, raised, output) ==
    [op |-> op, image_path |-> image_path, user_options |-> user_options,
     raised |-> raised, output |-> output]

\* the files and the record left by a direct call
Returned(image_path, user_options, r) ==
    /\ fs' = r.files
    /\ ret' = Ret("add_frame", image_path, user_options, r.raised, r.output)

\* add_frame(image_path, user_options) called on its own
CallAddFrame ==
    /\ pc = "idle"
    /\ \E image_path \in DOMAIN fs \cap SourcePaths, user_options \in DirectOptions :
          Returned(image_path, user_options, AddFrame(fs, image_path, user_options))
    /\ UNCHANGED <<call, clip, hasReplaceClip, pool, pc, win, user_data>>

MainRet(raised, output) == Ret("main", clip, user_data, raised, output)

\* a plausible slip: a clip that is already a framed output framed again
MainRefuses_Empty(file_path) == file_path = <<>>

\* line 258: if not file_path or "_framed" in file_path: return
MainRefuses(file_path) == file_path = <<>> \/ Contains(file_path, <<"_","f","r","a","m","e","d">>)

\* lines 270-302: the dialog with the formatted metadata as the default texts
Window(file_path, label) ==
    [shown |-> TRUE, file_path |-> file_path,
     CamInput |-> label[1], SetInput |-> label[2],
     ColorCombo |-> <<"W","h","i","t","e">>, PolaroidCheck |-> TRUE,
     SizeSlider |-> SliderDefault,
     SizeLabel |-> IntToStr(SliderDefault) \o <<"%">>,
     edits |-> 0]

\* lines 262-325, given what open_image returned
ShowDialog(file_path, opened) ==
    IF opened.raised
    THEN /\ ret' = MainRet(TRUE, PyNone)
         /\ UNCHANGED <<pc, win, user_data>>
    ELSE IF opened.img = NoImage
    THEN /\ ret' = MainRet(FALSE, PyNone)
         /\ UNCHANGED <<pc, win, user_data>>
    ELSE /\ win' = Window(file_path, CreateExifString(opened.exif))
         /\ user_data' = PyNone
         /\ pc' = "loop"
         /\ UNCHANGED ret

\* main() from its start to dispatcher.RunLoop() (lines 240-325): the dialog is
\* shown with the formatted metadata as the default texts, or main returns early,
\* or open_image raises out of main
MainStart ==
    /\ pc = "idle"
    /\ IF MainRefuses(clip)
       THEN /\ ret' = MainRet(FALSE, PyNone)
            /\ UNCHANGED <<pc, win, user_data>>
       ELSE ShowDialog(clip, OpenImage(fs, clip))
    /\ UNCHANGED <<call, fs, clip, hasReplaceClip, pool>>

\* the user types into the camera line edit
EditCamInput ==
    /\ pc = "loop" /\ win.edits < MaxEdits
    /\ win' = [win EXCEPT !.CamInput = TypedCamera, !.edits = @ + 1]
    /\ UNCHANGED <<call, fs, clip, hasReplaceClip, pool, pc, user_data, ret>>

\* the user types into the settings line edit, or clears it
EditSetInput ==
    /\ pc = "loop" /\ win.edits < MaxEdits
    /\ \E text \in {TypedSettings, <<>>} :
          win' = [win EXCEPT !.SetInput = text, !.edits = @ + 1]
    /\ UNCHANGED <<call, fs, clip, hasReplaceClip, pool, pc, user_data, ret>>

\* the user picks one of the two items added to ColorCombo (lines 300-301)
PickColor ==
    /\ pc = "loop" /\ win.edits < MaxEdits
    /\ \E item \in { <<"W","h","i","t","e">>, <<"B","l","a","c","k">> } :
          win' = [win EXCEPT !.ColorCombo = item, !.edits = @ + 1]
    /\ UNCHANGED <<call, fs, clip, hasReplaceClip, pool, pc, user_data, ret>>

TogglePolaroid ==
    /\ pc = "loop" /\ win.edits < MaxEdits
    /\ win' = [win EXCEPT !.PolaroidCheck = ~win.PolaroidCheck, !.edits = @ + 1]
    /\ UNCHANGED <<call, fs, clip, hasReplaceClip, pool, pc, user_data, ret>>

\* the user moves the slider; OnSlider (line 317) rewrites the label
OnSlider ==
    /\ pc = "loop" /\ win.edits < MaxEdits
    /\ \E value \in SliderValues :
          win' = [win EXCEPT !.SizeSlider = value,
                             !.SizeLabel = IntToStr(value) \o <<"%">>,
                             !.edits = @ + 1]
    /\ UNCHANGED <<call, fs, clip, hasReplaceClip, pool, pc, user_data, ret>>

\* OnClose (line 304)
OnClose ==
    /\ pc = "loop"
    /\ pc' = "exited"
    /\ UNCHANGED <<call, fs, clip, hasReplaceClip, pool, win, user_data, ret>>

\* OnCancel (line 305)
OnCancel ==
    /\ pc = "loop"
    /\ pc' = "exited"
    /\ UNCHANGED <<call, fs, clip, hasReplaceClip, pool, win, user_data, ret>>

\* OnExecute (lines 306-316)
OnExecute ==
    /\ pc = "loop"
    /\ user_data' =
          ("camera_text" :> PyStr(win.CamInput))
          @@ ("settings_text" :> PyStr(win.SetInput))
          @@ ("border_color" :> PyStr(win.ColorCombo))
          @@ ("border_size" :> PyInt(win.SizeSlider))
          @@ ("polaroid_style" :> PyBool(win.PolaroidCheck))
    /\ pc' = "exited"
    /\ UNCHANGED <<call, fs, clip, hasReplaceClip, pool, win, ret>>

\* lines 331-335, given what add_frame did; an exception is printed and goes no further
Deliver(r) ==
    /\ fs' = r.files
    /\ ret' = Ret("main", win.file_path, user_data, FALSE, r.output)
    /\ IF r.output # PyNone /\ hasReplaceClip
       THEN clip' = r.output.s /\ UNCHANGED pool
       ELSE IF r.output # PyNone
       THEN pool' = pool \cup {r.output.s} /\ UNCHANGED clip
       ELSE UNCHANGED <<clip, pool>>

\* a plausible slip: the frame made whether or not Process was clicked
MainResume_Always ==
    /\ pc = "exited"
    /\ pc' = "idle"
    /\ win' = NoWin
    /\ Deliver(AddFrame(fs, win.file_path, user_data))
    /\ UNCHANGED <<call, hasReplaceClip, user_data>>

\* main() after RunLoop returns (lines 326-335): without user_data nothing is
\* done; otherwise the frame is made and the clip replaced, or the output
\* imported where the item has no ReplaceClip
MainResume ==
    /\ pc = "exited"
    /\ pc' = "idle"
    /\ win' = NoWin
    /\ IF user_data = PyNone
       THEN /\ ret' = Ret("main", win.file_path, PyNone, FALSE, PyNone)
            /\ UNCHANGED <<fs, clip, pool>>
       ELSE Deliver(AddFrame(fs, win.file_path, user_data))
    /\ UNCHANGED <<call, hasReplaceClip, user_data>>

Next ==
    \/ CallAddFrame
    \/ MainStart
    \/ EditCamInput
    \/ EditSetInput
    \/ PickColor
    \/ TogglePolaroid
    \/ OnSlider
    \/ OnClose
    \/ OnCancel
    \/ OnExecute
    \/ MainResume

Spec == Init /\ [][Next]_vars

(***************************************************************************)
(* One call of open_image or of add_frame, with all it returned            *)
(***************************************************************************)
\* the files of the pipeline, one in a directory nothing can be written to and
\* one whose name already ends like an output
FrameSources ==
    Sources \cup { Source(<<"/","r","o","/","p","h","o","t","o",".","j","p","g">>, CameraJpeg),
                   Source(<<"/","a","/","b","/","p","h","o","t","o","_","f","r","a","m","e","d",".","j","p","g">>, CameraJpeg) }

\* the call to make, on a disk holding one source file
InitFrame ==
    /\ fs \in {(src.path :> src.content) : src \in FrameSources}
    /\ \/ \E file_path \in DOMAIN fs \cup MissingPaths :
              call = [op |-> "open_image", done |-> FALSE, file_path |-> file_path]
       \/ \E image_path \in DOMAIN fs \cup MissingPaths, user_options \in DirectOptions :
              call = [op |-> "add_frame", done |-> FALSE, image_path |-> image_path,
                      user_options |-> user_options]
    /\ clip = <<>>
    /\ hasReplaceClip = TRUE
    /\ pool = {}
    /\ pc = "idle"
    /\ win = NoWin
    /\ user_data = PyNone
    /\ ret = NoRet

\* open_image(file_path)
CallOpenImage ==
    /\ call.op = "open_image" /\ ~call.done
    /\ call' = [op |-> "open_image", done |-> TRUE, file_path |-> call.file_path,
                result |-> OpenImage(fs, call.file_path)]
    /\ UNCHANGED pipelineVars

\* the paths whose content a call changed or created
Written(before, after) ==
    {p \in DOMAIN after : p \notin DOMAIN before \/ after[p] # before[p]}

\* the files after the call, and the call with what it returned
Recorded(r) ==
    /\ fs' = r.files
    /\ call' = [op |-> "add_frame", done |-> TRUE, image_path |-> call.image_path,
                user_options |-> call.user_options, raised |-> r.raised,
                output |-> r.output, opened |-> r.opened,
                written |-> Written(fs, r.files)]

\* add_frame(image_path, user_options), once
RunAddFrame ==
    /\ call.op = "add_frame" /\ ~call.done
    /\ Recorded(AddFrame(fs, call.image_path, call.user_options))
    /\ UNCHANGED <<clip, hasReplaceClip, pool, pc, win, user_data, ret>>

NextFrame == CallOpenImage \/ RunAddFrame

SpecFrame == InitFrame /\ [][NextFrame]_vars
(***************************************************************************)
(* install.py.  A pathlib.Path is the sequence of its components.  The     *)
(* machine the installer runs on is a record: platform.system(), whether   *)
(* APPDATA is set, whether python and uv run, whether uv finds a virtual   *)
(* environment with a site-packages path, the libraries that do not        *)
(* import, the scripts present beside install.py and whether the preset    *)
(* file is.  call holds the machine and the last run of the installer.     *)
(***************************************************************************)
Home == <<"home">>

AppData == <<"appdata">>

ResolveUtility ==
    <<"Blackmagic Design", "DaVinci Resolve", "Fusion", "Scripts", "Utility">>

\* Path.parent
Parent(path) == SubSeq(path, 1, Len(path) - 1)

Path(raised, path) == [raised |-> raised, path |-> path]

\* get_install_dir(): the directory, or RuntimeError
GetInstallDir(env) ==
    IF env.system = "Darwin"
    THEN Path(FALSE, Home \o <<"Library", "Application Support">> \o ResolveUtility)
    ELSE IF env.system = "Windows"
    THEN IF env.appdata THEN Path(FALSE, AppData \o ResolveUtility)
         ELSE Path(TRUE, <<>>)
    ELSE Path(TRUE, <<>>)

SitePackages == <<".","v","e","n","v","/","l","i","b","/","s","i","t","e","-","p","a","c","k","a","g","e","s">>

\* get_venv_site_packages(): the path uv prints, RuntimeError when uv fails or
\* prints nothing, FileNotFoundError (uncaught) when there is no uv
GetVenvSitePackages(env) ==
    IF ~env.uv THEN [raised |-> "FileNotFoundError", site_packages |-> <<>>]
    ELSE IF ~env.venv THEN [raised |-> "RuntimeError", site_packages |-> <<>>]
    ELSE [raised |-> "none", site_packages |-> SitePackages]

Libraries == {"PIL", "rawpy", "exifread"}

Checks(python, uv, venv, libraries, raised) ==
    [python |-> python, uv |-> uv, venv |-> venv, libraries |-> libraries,
     raised |-> raised]

\* check_environment(): the checks made until the first one that fails, each
\* library tried, and get_install_dir() called outside any try
CheckEnvironment(env) ==
    IF ~env.python THEN Checks(FALSE, FALSE, FALSE, <<>>, FALSE)
    ELSE IF ~env.uv THEN Checks(TRUE, FALSE, FALSE, <<>>, FALSE)
    ELSE IF ~env.venv THEN Checks(TRUE, TRUE, FALSE, <<>>, FALSE)
    ELSE Checks(TRUE, TRUE, TRUE, [lib \in Libraries |-> lib \notin env.missing],
                GetInstallDir(env).raised)

\* the exit status of a run: sys.exit(1) and an uncaught exception give 1
ExitOk == 0
ExitError == 1

\* lines 282-286
CheckStatus(checks) ==
    IF checks.raised THEN ExitError
    ELSE IF ~(checks.python /\ checks.uv /\ checks.venv) THEN ExitError
    ELSE ExitOk

VenvPlaceholder == <<"{","{","V","E","N","V","_","P","A","T","H","}","}">>

\* a script file: which script it is and the value of its VENV_PATH line
Script(name, venv_path) == [fmt |-> "script", name |-> name, VENV_PATH |-> venv_path]

PresetFile == [fmt |-> "presets", name |-> "broadcast_presets.json"]

EmbeddingScripts == ("1" :> "add_exif_frame_dv_lite.py") @@ ("2" :> "add_exif_frame_dv.py")

SimpleScripts == ("3" :> "set_broadcast_format_dv.py") @@ ("4" :> "debug_project_settings.py")

Done(status, files) == [status |-> status, files |-> files]

\* install_script: the script written with the site-packages path embedded
InstallScript(files, name, install_dir, site_packages) ==
    Update(files, (install_dir \o <<name>>) :> Script(name, site_packages))

\* install_simple_script: the script written as it is
InstallSimpleScript(files, name, install_dir) ==
    Update(files, (install_dir \o <<name>>) :> Script(name, VenvPlaceholder))

\* install_preset_file, skipped with a warning when the preset file is missing
InstallPresetFile(files, env, install_dir) ==
    IF env.preset
    THEN Update(files, (Parent(install_dir) \o <<"presets", PresetFile.name>>) :> PresetFile)
    ELSE files

\* lines 181-211: choices 1 and 2
InstallEmbedding(env, files, name, install_dir, found) ==
    IF found.raised # "none" THEN Done(ExitError, files)
    ELSE IF name \notin env.scripts THEN Done(ExitError, files)
    ELSE Done(ExitOk, InstallScript(files, name, install_dir, found.site_packages))

\* lines 213-235: choices 3 and 4
InstallSimple(env, files, choice, name, install_dir) ==
    IF name \notin env.scripts THEN Done(ExitError, files)
    ELSE IF choice = "3"
    THEN Done(ExitOk, InstallPresetFile(InstallSimpleScript(files, name, install_dir),
                                        env, install_dir))
    ELSE Done(ExitOk, InstallSimpleScript(files, name, install_dir))

\* install() once get_install_dir() returned
InstallInto(env, files, choice, dir) ==
    IF dir.raised THEN Done(ExitError, files)
    ELSE IF choice \in DOMAIN EmbeddingScripts
    THEN InstallEmbedding(env, files, EmbeddingScripts[choice], dir.path,
                          GetVenvSitePackages(env))
    ELSE IF choice \in DOMAIN SimpleScripts
    THEN InstallSimple(env, files, choice, SimpleScripts[choice], dir.path)
    ELSE Done(ExitError, files)

\* install() with the choice typed at the prompt
Install(env, files, choice) == InstallInto(env, files, choice, GetInstallDir(env))

ScriptsToRemove == {"add_exif_frame_dv.py", "add_exif_frame_dv_lite.py"}

\* uninstall() once get_install_dir() returned
UninstallFrom(files, dir) ==
    IF dir.raised THEN Done(ExitError, files)
    ELSE Done(ExitOk,
              [p \in DOMAIN files \ {dir.path \o <<name>> : name \in ScriptsToRemove} |->
                  files[p]])

Uninstall(env, files) == UninstallFrom(files, GetInstallDir(env))

(***************************************************************************)
(* Runs of the installer on one machine                                    *)
(***************************************************************************)
Systems == {"Darwin", "Windows", "Linux"}

AllScripts ==
    {"add_exif_frame_dv_lite.py", "add_exif_frame_dv.py", "set_broadcast_format_dv.py",
     "debug_project_settings.py"}

\* the machines: venv needs uv; the scripts directory whole or without the script
\* of choice 1
Machines ==
    {[system |-> s, appdata |-> a, python |-> p, uv |-> u, venv |-> v, missing |-> m,
      scripts |-> sc, preset |-> pr] :
        s \in Systems, a \in BOOLEAN, p \in BOOLEAN, u \in BOOLEAN,
        v \in BOOLEAN, m \in SUBSET Libraries,
        sc \in {AllScripts, AllScripts \ {"add_exif_frame_dv_lite.py"}},
        pr \in BOOLEAN}

NoRun == [command |-> "none"]

Choices == {"1", "2", "3", "4", "5", ""}

InitInstall ==
    /\ \E env \in Machines :
          /\ env.venv => env.uv
          /\ env.appdata => env.system = "Windows"
          /\ env.missing # {} => env.venv
          /\ call = [op |-> "install.py", env |-> env, run |-> NoRun]
    /\ PipelineIdle

Ran(command, choice, done, checks) ==
    /\ call' = [call EXCEPT !.run = [command |-> command, choice |-> choice,
                                     status |-> done.status, checks |-> checks,
                                     before |-> fs]]
    /\ fs' = done.files

NoChecks == Checks(FALSE, FALSE, FALSE, <<>>, FALSE)

\* install.py with no command (lines 269-274)
MainUsage ==
    /\ call.op = "install.py"
    /\ Ran("", "", Done(ExitError, fs), NoChecks)
    /\ UNCHANGED <<clip, hasReplaceClip, pool, pc, win, user_data, ret>>

\* install.py install
MainInstall ==
    /\ call.op = "install.py"
    /\ \E choice \in Choices :
          Ran("install", choice, Install(call.env, fs, choice), NoChecks)
    /\ UNCHANGED <<clip, hasReplaceClip, pool, pc, win, user_data, ret>>

\* install.py uninstall
MainUninstall ==
    /\ call.op = "install.py"
    /\ Ran("uninstall", "", Uninstall(call.env, fs), NoChecks)
    /\ UNCHANGED <<clip, hasReplaceClip, pool, pc, win, user_data, ret>>

Checked(checks) == Ran("check", "", Done(CheckStatus(checks), fs), checks)

\* install.py check
MainCheck ==
    /\ call.op = "install.py"
    /\ Checked(CheckEnvironment(call.env))
    /\ UNCHANGED <<clip, hasReplaceClip, pool, pc, win, user_data, ret>>

\* install.py with any other command (lines 287-289)
MainUnknown ==
    /\ call.op = "install.py"
    /\ Ran("remove", "", Done(ExitError, fs), NoChecks)
    /\ UNCHANGED <<clip, hasReplaceClip, pool, pc, win, user_data, ret>>

NextInstall == MainUsage \/ MainInstall \/ MainUninstall \/ MainCheck \/ MainUnknown

SpecInstall == InitInstall /\ [][NextInstall]_vars
(***************************************************************************)
(* Applying a batch of settings: apply_preset_settings of                  *)
(* set_broadcast_format_dv.py and the loops of the two copy scripts.  A    *)
(* dict of settings is the sequence of its items in iteration order.  The  *)
(* host answers SetSetting per key: a truthy result, a falsy one, or an    *)
(* exception.                                                              *)
(***************************************************************************)
Item(key, value) == [key |-> key, value |-> value]

Raises == [t |-> "raises"]

\* what project.SetSetting(key, str(value)) does when the host answers `answer`
Applied(project, item, answer) ==
    IF answer # Raises /\ Truthy(answer)
    THEN Update(project, item.key :> Format(item.value))
    ELSE project

\* a plausible slip: an exception passed over, the key in no list
FailedEntry_Dropped(script, item, answer) ==
    IF answer = Raises THEN <<>>
    ELSE IF Truthy(answer) THEN <<>>
    ELSE IF script = "set_broadcast_format_dv" THEN <<item.key \o <<" ","="," ">> \o Format(item.value)>>
    ELSE <<item.key>>

\* what is appended to the failure list: nothing on success, the key (with its
\* value, and the error, in apply_preset_settings) otherwise
FailedEntry(script, item, answer) ==
    IF answer # Raises /\ Truthy(answer) THEN <<>>
    ELSE IF script # "set_broadcast_format_dv" THEN <<item.key>>
    ELSE IF answer = Raises
    THEN <<item.key \o <<" ","="," ">> \o Format(item.value) \o <<" ","(","E","r","r","o","r",":"," ","r","e","j","e","c","t","e","d",")">>>>
    ELSE <<item.key \o <<" ","="," ">> \o Format(item.value)>>

Succeeded(answer) == IF answer # Raises /\ Truthy(answer) THEN 1 ELSE 0

Batch(success_count, failed, calls, project) ==
    [success_count |-> success_count, failed |-> failed, calls |-> calls,
     project |-> project]

\* one turn of the loop: SetSetting called inside the try, the result counted
LoopBody(script, item, answer, acc) ==
    Batch(acc.success_count + Succeeded(answer),
          acc.failed \o FailedEntry(script, item, answer),
          Append(acc.calls, <<item.key, Format(item.value)>>),
          Applied(acc.project, item, answer))

\* for key, value in settings.items(): ...
RECURSIVE ApplyFrom(_, _, _, _, _)
ApplyFrom(script, settings, i, host, acc) ==
    IF i > Len(settings) THEN acc
    ELSE ApplyFrom(script, settings, i + 1, host,
                   LoopBody(script, settings[i], host[settings[i].key], acc))

\* the loop of the script `script` over `settings` on a new project
ApplySettings(script, settings, host) ==
    ApplyFrom(script, settings, 1, host, Batch(0, <<>>, <<>>, EmptyDict))

\* the settings tried, and the longest batch
SettingKeys == { <<"t","i","m","e","l","i","n","e","F","r","a","m","e","R","a","t","e">>, <<"s","u","p","e","r","S","c","a","l","e">>, <<"c","o","l","o","r","S","c","i","e","n","c","e","M","o","d","e">> }

SettingValue ==
    (<<"t","i","m","e","l","i","n","e","F","r","a","m","e","R","a","t","e">> :> PyFloat(2997 * (FloatScale \div 100)))
    @@ (<<"s","u","p","e","r","S","c","a","l","e">> :> PyInt(1))
    @@ (<<"c","o","l","o","r","S","c","i","e","n","c","e","M","o","d","e">> :> PyStr(<<"d","a","v","i","n","c","i","Y","R","G","B">>))

MaxSettings == 3

\* the batches: the sequences of distinct keys, each with its value
Batches ==
    UNION {{[i \in 1..n |-> Item(ks[i], SettingValue[ks[i]])] :
               ks \in {s \in [1..n -> SettingKeys] :
                          \A i, j \in 1..n : i # j => s[i] # s[j]}} :
           n \in 0..MaxSettings}

Answers == {PyBool(TRUE), PyBool(FALSE), PyNone, Raises}

BatchScripts ==
    {"set_broadcast_format_dv", "copy_project_settings_dv", "copy_project_settings_dv_lite"}

InitSettings ==
    /\ \E script \in BatchScripts, settings \in Batches, host \in [SettingKeys -> Answers] :
          call = [op |-> script, done |-> FALSE, settings |-> settings, host |-> host]
    /\ PipelineIdle

Applying(script) == call.op = script /\ ~call.done

Finished(batch) ==
    call' = [op |-> call.op, done |-> TRUE, settings |-> call.settings,
             host |-> call.host, success_count |-> batch.success_count,
             failed |-> batch.failed, calls |-> batch.calls, project |-> batch.project]

\* apply_preset_settings(project, settings)
ApplyPresetSettings ==
    /\ Applying("set_broadcast_format_dv")
    /\ Finished(ApplySettings(call.op, call.settings, call.host))
    /\ UNCHANGED pipelineVars

\* copy_project_settings_dv.py, main, lines 316-331
CopySettingsStudio ==
    /\ Applying("copy_project_settings_dv")
    /\ Finished(ApplySettings(call.op, call.settings, call.host))
    /\ UNCHANGED pipelineVars

\* copy_project_settings_dv_lite.py, main, lines 96-110
CopySettingsLite ==
    /\ Applying("copy_project_settings_dv_lite")
    /\ Finished(ApplySettings(call.op, call.settings, call.host))
    /\ UNCHANGED pipelineVars

NextSettings == ApplyPresetSettings \/ CopySettingsStudio \/ CopySettingsLite

SpecSettings == InitSettings /\ [][NextSettings]_vars
(***************************************************************************)
(* The presets of set_broadcast_format_dv.py.  A JSON file is the value    *)
(* json.load reads from it; a file json.load fails on keeps the presets    *)
(* its text held before it was damaged.  A dict of presets is a function   *)
(* from names to presets.  call holds the platform, the last call, what   *)
(* each successful save of the run stored last under its name (kept) and   *)
(* whether a save of the run failed.                                       *)
(***************************************************************************)
\* a file json.load reads `root` from
JsonFile(root) == [fmt |-> "json", root |-> root]

\* a file json.load raises on, which held `presets` when it was whole
DamagedFile(presets) == [fmt |-> "damaged", held |-> presets]

\* a file cut off while it was written
TruncatedFile == [fmt |-> "damaged", held |-> EmptyDict]

\* json.load(f): the value, or an exception
JsonLoad(file) ==
    IF file.fmt = "json" THEN [raised |-> FALSE, data |-> file.root]
    ELSE [raised |-> TRUE, data |-> PyNone]

\* json.dump(output_data, f, indent=2, ensure_ascii=False) into a fresh file
JsonDump(output_data) == JsonFile(output_data)

DefaultPresetsPath == <<"repo", "presets", "broadcast_presets.json">>

\* the directory of the custom presets (lines 39-46)
CustomDir(platform) ==
    IF platform = "darwin"
    THEN Home \o <<"Library", "Application Support", "DaVinci Resolve Custom Presets">>
    ELSE IF platform = "win32"
    THEN AppData \o <<"DaVinci Resolve Custom Presets">>
    ELSE Home \o <<".config", "DaVinci Resolve Custom Presets">>

\* get_preset_paths()[1]
CustomPresetsPath(platform) == CustomDir(platform) \o <<"custom_presets.json">>

\* data["presets"] of the file at path, {} where the file is missing, cannot be
\* parsed or has no "presets"
PresetsOf(loaded) ==
    IF ~loaded.raised /\ "presets" \in DOMAIN loaded.data THEN loaded.data["presets"]
    ELSE EmptyDict

StoredPresets(files, path) ==
    IF path \in DOMAIN files THEN PresetsOf(JsonLoad(files[path])) ELSE EmptyDict

CustomPrefix == <<"[","C","u","s","t","o","m","]"," ">>

\* lines 79-80: every custom preset under "[Custom] " + its name
Prefixed(custom) ==
    [shown \in {CustomPrefix \o name : name \in DOMAIN custom} |->
        custom[CHOOSE name \in DOMAIN custom : CustomPrefix \o name = shown]]

\* load_presets(): the bundled presets, then the custom ones over them
LoadPresets(files, platform) ==
    Update(StoredPresets(files, DefaultPresetsPath),
           Prefixed(StoredPresets(files, CustomPresetsPath(platform))))

Preset(description, settings) == [description |-> description, settings |-> settings]

\* lines 109-112
OutputData(existing_presets) ==
    [_description |-> <<"C","u","s","t","o","m"," ","b","r","o","a","d","c","a","s","t"," ","f","o","r","m","a","t"," ","p","r","e","s","e","t","s">>, presets |-> existing_presets]

Saved(result, files) == [result |-> result, files |-> files]

\* lines 114-120: the file written, or the exception printed; a disk that fills up
\* fails after open(custom_path, 'w') has emptied the file
WriteCustom(files, path, output_data, disk) ==
    IF disk = "ok" THEN Saved(TRUE, Update(files, path :> JsonDump(output_data)))
    ELSE IF disk = "full" THEN Saved(FALSE, Update(files, path :> TruncatedFile))
    ELSE Saved(FALSE, files)

\* a save that forgets the presets stored before
SaveCustomPreset_Fresh(files, platform, name, settings, description, disk) ==
    WriteCustom(files, CustomPresetsPath(platform),
                OutputData(name :> Preset(description, settings)), disk)

\* save_custom_preset(name, settings, description)
SaveCustomPreset(files, platform, name, settings, description, disk) ==
    WriteCustom(files, CustomPresetsPath(platform),
                OutputData(Update(StoredPresets(files, CustomPresetsPath(platform)),
                                  name :> Preset(description, settings))),
                disk)

(***************************************************************************)
(* Saving and loading presets on one machine                               *)
(***************************************************************************)
Ntsc == <<"N","T","S","C">>

Pal == <<"P","A","L">>

NtscSettings == (<<"t","i","m","e","l","i","n","e","F","r","a","m","e","R","a","t","e">> :> PyStr(<<"2","9",".","9","7">>))

PalSettings == (<<"t","i","m","e","l","i","n","e","F","r","a","m","e","R","a","t","e">> :> PyStr(<<"2","5">>))

\* what the user saves: a description with the settings of the project
SaveInfos == {Preset(<<>>, NtscSettings), Preset(<<"E","u","r","o","p","e">>, PalSettings)}

\* the bundled file: missing, whole, whole with a name that begins like a custom
\* one, without "presets", damaged
BundledFiles ==
    { JsonFile([presets |-> (Ntsc :> Preset(<<"U","S">>, NtscSettings))]),
      JsonFile([presets |-> (Ntsc :> Preset(<<"U","S">>, NtscSettings))
                            @@ ((CustomPrefix \o Ntsc) :> Preset(<<"o","l","d">>, PalSettings))]),
      JsonFile([_description |-> <<"e","m","p","t","y">>]),
      DamagedFile(EmptyDict) }

\* the custom file the run starts with
CustomFiles ==
    { JsonFile(OutputData(Ntsc :> Preset(<<"m","i","n","e">>, PalSettings))),
      JsonFile([_description |-> <<"e","m","p","t","y">>]),
      DamagedFile(Pal :> Preset(<<"E","u","r","o","p","e">>, PalSettings)) }

Platforms == {"darwin", "win32", "linux"}

Disks == {"ok", "readonly", "full"}

\* the files a run starts with: each of the two present or not
PresetDisks(platform) ==
    {EmptyDict} \cup {(DefaultPresetsPath :> b) : b \in BundledFiles}
    \cup {(CustomPresetsPath(platform) :> c) : c \in CustomFiles}
    \cup {(DefaultPresetsPath :> b) @@ (CustomPresetsPath(platform) :> c) :
             b \in BundledFiles, c \in CustomFiles}

InitPresets ==
    /\ \E platform \in Platforms :
          /\ call = [op |-> "presets", platform |-> platform, last |-> NoRun,
                    kept |-> EmptyDict, failed |-> FALSE]
          /\ fs \in PresetDisks(platform)
    /\ clip = <<>>
    /\ hasReplaceClip = TRUE
    /\ pool = {}
    /\ pc = "idle"
    /\ win = NoWin
    /\ user_data = PyNone
    /\ ret = NoRet

SaveReturned(name, info, disk, saved) ==
    /\ fs' = saved.files
    /\ call' = [call EXCEPT !.last = [command |-> "save_custom_preset", name |-> name,
                                      info |-> info, disk |-> disk,
                                      result |-> saved.result, before |-> fs],
                             !.kept = IF saved.result THEN Update(call.kept, name :> info)
                                      ELSE call.kept,
                             !.failed = call.failed \/ ~saved.result]

\* save_custom_preset called from main (lines 389-393)
CallSaveCustomPreset ==
    /\ call.op = "presets"
    /\ \E name \in {Ntsc, Pal}, info \in SaveInfos, disk \in Disks :
          SaveReturned(name, info, disk,
                       SaveCustomPreset(fs, call.platform, name, info.settings,
                                        info.description, disk))
    /\ UNCHANGED <<clip, hasReplaceClip, pool, pc, win, user_data, ret>>

\* load_presets called from main (line 360)
CallLoadPresets ==
    /\ call.op = "presets"
    /\ call' = [call EXCEPT !.last = [command |-> "load_presets",
                                      result |-> LoadPresets(fs, call.platform)]]
    /\ UNCHANGED pipelineVars

NextPresets == CallSaveCustomPreset \/ CallLoadPresets

SpecPresets == InitPresets /\ [][NextPresets]_vars
(***************************************************************************)
(* The start of add_exif_frame_dv.py (lines 1-37): where the libraries are *)
(* looked for.  call holds os.environ's value of the variable, the         *)
(* VENV_PATH line of the installed script, the directories that exist and  *)
(* those of them the libraries can be imported from.                       *)
(***************************************************************************)
OtherSitePackages == <<"/","o","p","t","/","v","e","n","v","/","s","i","t","e","-","p","a","c","k","a","g","e","s">>

RemovedSitePackages == <<"/","o","l","d","/","s","i","t","e","-","p","a","c","k","a","g","e","s">>

\* os.path.isdir(path)
IsDir(dirs, path) == path \in dirs

\* lines 11-13: the variable is set, not empty and names a directory
FromEnviron(environ, dirs) == environ # PyNone /\ Len(environ.s) > 0 /\ IsDir(dirs, environ.s)

\* lines 16-17: a path was put in at install time and is a directory
FromEmbedded(venv_path, dirs) == venv_path # VenvPlaceholder /\ IsDir(dirs, venv_path)

\* a plausible slip: the embedded path looked at before the variable
FindSitePackages_EmbeddedFirst(environ, venv_path, dirs) ==
    IF FromEmbedded(venv_path, dirs) THEN PyStr(venv_path)
    ELSE IF FromEnviron(environ, dirs) THEN environ
    ELSE PyNone

\* find_site_packages()
FindSitePackages(environ, venv_path, dirs) ==
    IF FromEnviron(environ, dirs) THEN environ
    ELSE IF FromEmbedded(venv_path, dirs) THEN PyStr(venv_path)
    ELSE PyNone

NoExit == [exited |-> FALSE, status |-> ExitOk]

SysExit(status) == [exited |-> TRUE, status |-> status]

Started(site_packages_path, exit, printed) ==
    [site_packages_path |-> site_packages_path, exit |-> exit, printed |-> printed]

\* lines 21-37: the path found goes to the front of sys.path and the libraries
\* are imported; no path, or a failed import, ends the process with 1
Startup(site_packages_path, libs) ==
    IF site_packages_path = PyNone
    THEN Started(PyNone, SysExit(ExitError), "ERROR: Could not find required libraries.")
    ELSE IF site_packages_path.s \notin libs
    THEN Started(site_packages_path, SysExit(ExitError), "Error loading libraries")
    ELSE Started(site_packages_path, NoExit, "")

SitePackagesDirs == {SitePackages, OtherSitePackages, RemovedSitePackages}

Environs == {PyNone, PyStr(<<>>)} \cup {PyStr(p) : p \in SitePackagesDirs}

InitLibs ==
    /\ \E environ \in Environs, venv_path \in {VenvPlaceholder} \cup SitePackagesDirs,
          dirs \in SUBSET {SitePackages, OtherSitePackages} :
          \E libs \in SUBSET dirs :
             call = [op |-> "add_exif_frame_dv.py", environ |-> environ,
                     VENV_PATH |-> venv_path, dirs |-> dirs, libs |-> libs,
                     started |-> FALSE, start |-> Started(PyNone, NoExit, "")]
    /\ PipelineIdle

\* the script is loaded by the host
LoadScript ==
    /\ call.op = "add_exif_frame_dv.py"
    /\ ~call.started
    /\ call' = [call EXCEPT !.started = TRUE,
                            !.start = Startup(FindSitePackages(call.environ, call.VENV_PATH,
                                                               call.dirs),
                                              call.libs)]
    /\ UNCHANGED pipelineVars

NextLibs == LoadScript

SpecLibs == InitLibs /\ [][NextLibs]_vars
(***************************************************************************)
(* The borders of add_frame (lines 192-201) over a range of image sizes    *)
(* and slider positions.  call holds the arguments and the sizes computed. *)
(***************************************************************************)
\* the longest side of the images tried
MaxSide == 24

NoSizes == Sizes(0, 0, 0, 0)

InitGeometry ==
    /\ \E width \in 1..MaxSide, height \in 1..MaxSide,
          border_size \in SliderMinimum..SliderMaximum, polaroid_style \in BOOLEAN :
          call = [op |-> "geometry", width |-> width, height |-> height,
                  border_size |-> border_size, polaroid_style |-> polaroid_style,
                  done |-> FALSE, sizes |-> NoSizes]
    /\ PipelineIdle

\* add_frame as far as line 201
ComputeGeometry ==
    /\ call.op = "geometry"
    /\ ~call.done
    /\ call' = [call EXCEPT !.done = TRUE,
                            !.sizes = FrameGeometry(call.width, call.height,
                                                    RatioOf(PyInt(call.border_size)),
                                                    call.polaroid_style)]
    /\ UNCHANGED pipelineVars

NextGeometry == ComputeGeometry

SpecGeometry == InitGeometry /\ [][NextGeometry]_vars
(***************************************************************************)
(* load_font of add_frame (lines 208-219).  call holds the font files      *)
(* installed, how the library takes a size of 0, and the last result.      *)
(***************************************************************************)
BoldCandidates ==
    <<"/System/Library/Fonts/SFNS-Bold.ttf", "/Library/Fonts/Arial Bold.ttf", "Arial Bold.ttf">>

RegularCandidates ==
    <<"/System/Library/Fonts/SFNS.ttf", "/Library/Fonts/Arial.ttf", "Arial.ttf">>

\* candidates.get(name, [])
Candidates(name) ==
    IF name = "Bold" THEN BoldCandidates
    ELSE IF name = "Regular" THEN RegularCandidates
    ELSE <<>>

\* a plausible slip: the regular fonts not tried after the bold ones
SearchList_OwnOnly(name) == Candidates(name)

\* line 213
SearchList(name) == Candidates(name) \o RegularCandidates

\* ImageFont.truetype(fpath, size) raises: no such file, or a size of 0 with a
\* library that refuses it
TruetypeRaises(fpath, size, installed, strict) ==
    fpath \notin installed \/ (strict /\ size <= 0)

Font(fpath, size) == [raised |-> FALSE, font |-> fpath, size |-> size]

\* ImageFont.load_default()
DefaultFont == [raised |-> FALSE, font |-> "default", size |-> 10]

\* lines 214-217 from the i-th candidate on
RECURSIVE TryFrom(_, _, _, _, _)
TryFrom(search_list, i, size, installed, strict) ==
    IF i > Len(search_list) THEN DefaultFont
    ELSE IF TruetypeRaises(search_list[i], size, installed, strict)
    THEN TryFrom(search_list, i + 1, size, installed, strict)
    ELSE Font(search_list[i], size)

\* load_font(name, size)
LoadFont(name, size, installed, strict) ==
    TryFrom(SearchList(name), 1, size, installed, strict)

\* the largest font size tried
MaxFontSize == 2

FontFiles == {BoldCandidates[i] : i \in 1..3} \cup {RegularCandidates[i] : i \in 1..3}

InitFont ==
    /\ \E installed \in SUBSET FontFiles, strict \in BOOLEAN :
          call = [op |-> "load_font", installed |-> installed, strict |-> strict,
                  last |-> NoRun]
    /\ PipelineIdle

\* load_font called for one line of the label (lines 218-219)
CallLoadFont ==
    /\ call.op = "load_font"
    /\ \E name \in {"Bold", "Regular"}, size \in 0..MaxFontSize :
          call' = [call EXCEPT !.last = [command |-> "load_font", name |-> name,
                                         size |-> size,
                                         result |-> LoadFont(name, size, call.installed,
                                                             call.strict)]]
    /\ UNCHANGED pipelineVars

NextFont == CallLoadFont

SpecFont == InitFont /\ [][NextFont]_vars
(***************************************************************************)
(* get_exif_data_raw on the tags of one raw file, and the label            *)
(* create_exif_string makes of what it returns (lines 58-94, 155, 171).    *)
(* call holds the tags in the order exifread yields them.                  *)
(***************************************************************************)
\* values[0] of the exposure tag as (num, den), exifread's Ratio in lowest terms;
\* a denominator of 0 is what a damaged entry gives
ExposureRatios ==
    { <<1, 2>>, <<1, 3>>, <<1, 250>>, <<1, 8000>>, <<1, 1>>, <<2, 1>>, <<30, 1>>,
      <<3, 2>>, <<2, 3>>, <<3, 10>>, <<0, 1>>, <<-1, 3>>, <<1, 0>>, <<0, 0>> }

MakeTag == RawTag(<<"I","m","a","g","e"," ","M","a","k","e">>, <<"F","U","J","I","F","I","L","M">>, NotARatio)

ModelTag == RawTag(<<"I","m","a","g","e"," ","M","o","d","e","l">>, <<"X","-","T","5">>, NotARatio)

LensMakeTag == RawTag(<<"E","X","I","F"," ","L","e","n","s","M","a","k","e">>, <<"S","i","g","m","a">>, NotARatio)

LensModelTag == RawTag(<<"E","X","I","F"," ","L","e","n","s","M","o","d","e","l">>, <<"X","F","3","5","m","m">>, NotARatio)

IsoTag == RawTag(<<"E","X","I","F"," ","I","S","O","S","p","e","e","d","R","a","t","i","n","g","s">>, <<"4","0","0">>, NotARatio)

ExposureTag(ratio) == RawTag(<<"E","X","I","F"," ","E","x","p","o","s","u","r","e","T","i","m","e">>, <<"e","x","p","o","s","u","r","e">>, ratio)

\* the tags of a file: the main directory first and then the Exif one, the same
\* with a lens maker's tag before the lens model, the Exif directory first, the
\* exposure alone, and a file without a camera model
TagOrders(ratio) ==
    { << MakeTag, ModelTag, ExposureTag(ratio), IsoTag, LensModelTag >>,
      << MakeTag, ModelTag, ExposureTag(ratio), IsoTag, LensMakeTag, LensModelTag >>,
      << ExposureTag(ratio), IsoTag, LensModelTag, MakeTag, ModelTag >>,
      << ExposureTag(ratio) >>,
      << MakeTag, ExposureTag(ratio), LensModelTag >> }

NoRaw == [raised |-> FALSE, data |-> EmptyDict, label |-> << <<>>, <<>> >>]

\* what get_exif_data_raw returned, or that it raised, and the two lines
RawRead(raised, data) ==
    [raised |-> raised, data |-> data, label |-> CreateExifString(data)]

ReadRawTags(tags) ==
    IF GetExifDataRawRaises(tags) THEN RawRead(TRUE, EmptyDict)
    ELSE RawRead(FALSE, GetExifDataRaw(tags))

InitRaw ==
    /\ \E ratio \in ExposureRatios :
          \E tags \in TagOrders(ratio) :
             call = [op |-> "get_exif_data_raw", tags |-> tags, ratio |-> ratio,
                     done |-> FALSE, read |-> NoRaw]
    /\ PipelineIdle

\* get_exif_data_raw(file_path) and create_exif_string(exif) on its result
CallGetExifDataRaw ==
    /\ call.op = "get_exif_data_raw"
    /\ ~call.done
    /\ call' = [call EXCEPT !.done = TRUE, !.read = ReadRawTags(call.tags)]
    /\ UNCHANGED pipelineVars

NextRaw == CallGetExifDataRaw

SpecRaw == InitRaw /\ [][NextRaw]_vars
(***************************************************************************)
(* main() of copy_project_settings_dv.py with its dialogs.  call holds the *)
(* host (the projects of the folder, whether LoadProject and CreateProject *)
(* succeed, what GetSetting returns, how SetSetting answers), the place    *)
(* main() is at, and the calls made to the host so far.                    *)
(***************************************************************************)
\* what source_project.GetSetting() returned: None, a dict (its items) or a str
Got(kind, items) == [kind |-> kind, items |-> items]

\* bool(settings) and isinstance(settings, dict) (lines 286, 294)
NoSettings_(settings) == settings.kind = "none" \/ settings.items = <<>>

IsDict(settings) == settings.kind = "dict"

TreeRoot == <<"P","r","o","j","e","c","t","s">>

CopySuffix == <<" ","C","o","p","y">>

\* a call to the host, as main() made it
HostCall(api, project, key) == [api |-> api, project |-> project, key |-> key]

\* the SetSetting calls of the loop of lines 320-330, on the project `project`
RECURSIVE SetSettingCalls(_, _, _)
SetSettingCalls(project, calls, i) ==
    IF i > Len(calls) THEN <<>>
    ELSE <<HostCall("SetSetting", project, calls[i][1])>>
         \o SetSettingCalls(project, calls, i + 1)

\* pm.CreateProject(name): None when the name is taken or the host refuses
CreateProjectFails(host, name) ==
    ~host.creates \/ \E i \in 1..Len(host.projects) : host.projects[i] = name

ShowName == <<"S","h","o","w">>

CopyFolders == { <<>>, <<ShowName>>, <<ShowName, ShowName \o CopySuffix>> }

CopySettings ==
    { Got("none", <<>>), Got("dict", <<>>), Got("str", <<"s","e","t","t","i","n","g","s">>),
      Got("dict", << Item(<<"t","i","m","e","l","i","n","e","F","r","a","m","e","R","a","t","e">>, PyStr(<<"2","4">>)),
                     Item(<<"s","u","p","e","r","S","c","a","l","e">>, PyInt(1)) >>) }

CopyAnswers ==
    [{ <<"t","i","m","e","l","i","n","e","F","r","a","m","e","R","a","t","e">>, <<"s","u","p","e","r","S","c","a","l","e">> } -> {PyBool(TRUE), PyBool(FALSE), Raises}]

\* what the user may leave in NameInput: the default, the source's own name,
\* nothing, blanks, a new name between blanks
NameTexts(source_name) ==
    {source_name \o CopySuffix, source_name, <<>>, <<" "," ">>, <<" ","G","r","a","d","e"," ">>}

InitCopy ==
    /\ \E projects \in CopyFolders, loads \in BOOLEAN, creates \in BOOLEAN,
          settings \in CopySettings, answers \in CopyAnswers :
          call = [op |-> "copy_project_settings_dv.py", pc |-> "idle",
                  host |-> [projects |-> projects, loads |-> loads, creates |-> creates,
                            settings |-> settings, answers |-> answers],
                  source_name |-> PyNone, new_name |-> PyNone, log |-> <<>>,
                  success_count |-> 0, failed_keys |-> <<>>]
    /\ PipelineIdle

AtCopy(pc_) == call.op = "copy_project_settings_dv.py" /\ call.pc = pc_

\* main() as far as the first dialog (lines 237-272): the error dialog when the
\* folder holds no project, the selection dialog otherwise
CopyMainStart ==
    /\ AtCopy("idle")
    /\ call' = [call EXCEPT !.pc = IF call.host.projects = <<>> THEN "error" ELSE "select"]
    /\ UNCHANGED pipelineVars

\* on_next (lines 104-108): the current item is None, the root or a project
OnNext ==
    /\ AtCopy("select")
    /\ \E current_item \in {PyNone, PyStr(TreeRoot)}
                           \cup {PyStr(call.host.projects[i]) :
                                    i \in 1..Len(call.host.projects)} :
          call' = IF current_item # PyNone /\ current_item.s # TreeRoot
                  THEN [call EXCEPT !.source_name = current_item, !.pc = "selected"]
                  ELSE call
    /\ UNCHANGED pipelineVars

\* on_cancel of the selection dialog (lines 101-102)
SelectOnCancel ==
    /\ AtCopy("select")
    /\ call' = [call EXCEPT !.pc = "selected"]
    /\ UNCHANGED pipelineVars

\* on_close of the selection dialog (lines 98-99)
SelectOnClose ==
    /\ AtCopy("select")
    /\ call' = [call EXCEPT !.pc = "selected"]
    /\ UNCHANGED pipelineVars

\* the name dialog whatever GetSetting returned
AfterLoad_Unchecked(source_name) ==
    [call EXCEPT !.log = call.log \o <<HostCall("LoadProject", source_name, <<>>),
                                       HostCall("GetSetting", source_name, <<>>)>>,
                 !.pc = "name"]

\* lines 283-302 after LoadProject succeeded: GetSetting and its two tests
AfterLoad(source_name) ==
    [call EXCEPT !.log = call.log \o <<HostCall("LoadProject", source_name, <<>>),
                                       HostCall("GetSetting", source_name, <<>>)>>,
                 !.pc = IF NoSettings_(call.host.settings) THEN "error"
                        ELSE IF ~IsDict(call.host.settings) THEN "error"
                        ELSE "name"]

\* main() from the selection dialog to the name dialog (lines 272-302)
CopyMainSelected ==
    /\ AtCopy("selected")
    /\ call' = IF call.source_name = PyNone THEN [call EXCEPT !.pc = "done"]
               ELSE IF ~call.host.loads
               THEN [call EXCEPT !.log = Append(call.log,
                                                HostCall("LoadProject", call.source_name.s,
                                                         <<>>)),
                                 !.pc = "error"]
               ELSE AfterLoad(call.source_name.s)
    /\ UNCHANGED pipelineVars

\* on_create (lines 168-172)
OnCreate ==
    /\ AtCopy("name")
    /\ \E text \in NameTexts(call.source_name.s) :
          call' = IF Strip(text) # <<>>
                  THEN [call EXCEPT !.new_name = PyStr(Strip(text)), !.pc = "named"]
                  ELSE call
    /\ UNCHANGED pipelineVars

\* on_cancel of the name dialog (lines 165-166)
NameOnCancel ==
    /\ AtCopy("name")
    /\ call' = [call EXCEPT !.pc = "named"]
    /\ UNCHANGED pipelineVars

\* on_close of the name dialog (lines 162-163)
NameOnClose ==
    /\ AtCopy("name")
    /\ call' = [call EXCEPT !.pc = "named"]
    /\ UNCHANGED pipelineVars

\* lines 316-333: the loop over the settings, on the project just created
AfterCreate(new_name, batch) ==
    [call EXCEPT !.log = call.log \o <<HostCall("CreateProject", new_name, <<>>)>>
                         \o SetSettingCalls(new_name, batch.calls, 1),
                 !.success_count = batch.success_count,
                 !.failed_keys = batch.failed,
                 !.pc = "result"]

\* main() from the name dialog to the result dialog (lines 302-333)
CopyMainNamed ==
    /\ AtCopy("named")
    /\ call' = IF call.new_name = PyNone THEN [call EXCEPT !.pc = "done"]
               ELSE IF CreateProjectFails(call.host, call.new_name.s)
               THEN [call EXCEPT !.log = Append(call.log,
                                                HostCall("CreateProject", call.new_name.s,
                                                         <<>>)),
                                 !.pc = "error"]
               ELSE AfterCreate(call.new_name.s,
                                ApplySettings("copy_project_settings_dv",
                                              call.host.settings.items, call.host.answers))
    /\ UNCHANGED pipelineVars

\* on_ok and on_close of the error dialog and of the result dialog; main() returns
OnOk ==
    /\ call.op = "copy_project_settings_dv.py"
    /\ call.pc \in {"error", "result"}
    /\ call' = [call EXCEPT !.pc = "done"]
    /\ UNCHANGED pipelineVars

NextCopy ==
    \/ CopyMainStart
    \/ OnNext
    \/ SelectOnCancel
    \/ SelectOnClose
    \/ CopyMainSelected
    \/ OnCreate
    \/ NameOnCancel
    \/ NameOnClose
    \/ CopyMainNamed
    \/ OnOk

SpecCopy == InitCopy /\ [][NextCopy]_vars
(***************************************************************************)
(* Claims about the label formatter, checked under SpecLabel               *)
(***************************************************************************)
ShutterCall == call.op = "format_shutter_speed" /\ call.done /\ ~Truthy(call.speed_str)

NonPositive(v) == ~GreaterThan(v, 0)

\* C2 as stated: with no precomputed display string format_shutter_speed returns
\* "1/2000" for 0.0005, "2" for 2.0 and "" for 0 and for every negative speed.
C2_ShutterExamplesAsStated ==
    ShutterCall =>
        /\ call.speed = PyFloat(5) => call.result = <<"1","/","2","0","0","0">>
        /\ call.speed = PyFloat(2 * FloatScale) => call.result = <<"2">>
        /\ NonPositive(call.speed) => call.result = <<>>

\* C2 amended: with no precomputed display string format_shutter_speed returns
\* "1/2000" for 0.0005, "2.0" (the float's own rendering) for 2.0 and "" for 0 and
\* for every negative speed.
C2_ShutterExamples ==
    ShutterCall =>
        /\ call.speed = PyFloat(5) => call.result = <<"1","/","2","0","0","0">>
        /\ call.speed = PyFloat(2 * FloatScale) => call.result = <<"2",".","0">>
        /\ NonPositive(call.speed) => call.result = <<>>

C2_Witness ==
    /\ ShutterCall
    /\ call.speed = PyFloat(2 * FloatScale)
    /\ call.speed_str = PyNone
    /\ call.result = <<"2",".","0">>

LabelCall == call.op = "create_exif_string" /\ call.done

\* the number of places of s where p starts
Occurrences(s, p) ==
    Cardinality({i \in 0..(Len(s) - Len(p)) : SubSeq(s, i + 1, i + Len(p)) = p})

HasMakeAndModel(exif, make, model) ==
    /\ "Make" \in DOMAIN exif /\ exif["Make"] = PyStr(make)
    /\ "Model" \in DOMAIN exif /\ exif["Model"] = PyStr(model)

\* C3: create_exif_string never doubles the manufacturer: make "Canon" with model
\* "Canon EOS R5" or "Canon Canon EOS R5" gives the camera name "Canon EOS R5", and
\* for every make and model the make's first word occurs at most once, ignoring
\* case, in the camera name.
C3_MakeNeverDoubled ==
    LabelCall =>
        /\ HasMakeAndModel(call.exif, <<"C","a","n","o","n">>, <<"C","a","n","o","n"," ","E","O","S"," ","R","5">>)
              => call.camera_name = <<"C","a","n","o","n"," ","E","O","S"," ","R","5">>
        /\ HasMakeAndModel(call.exif, <<"C","a","n","o","n">>, <<"C","a","n","o","n"," ","C","a","n","o","n"," ","E","O","S"," ","R","5">>)
              => call.camera_name = <<"C","a","n","o","n"," ","E","O","S"," ","R","5">>
        /\ MakeOf(call.exif) # <<>>
              => Occurrences(Lower(call.camera_name),
                             Lower(FirstWord(MakeOf(call.exif)))) <= 1

\* the examples of C3 alone, which the code satisfies
C3_ExamplesHold ==
    LabelCall =>
        /\ HasMakeAndModel(call.exif, <<"C","a","n","o","n">>, <<"C","a","n","o","n"," ","E","O","S"," ","R","5">>)
              => call.camera_name = <<"C","a","n","o","n"," ","E","O","S"," ","R","5">>
        /\ HasMakeAndModel(call.exif, <<"C","a","n","o","n">>, <<"C","a","n","o","n"," ","C","a","n","o","n"," ","E","O","S"," ","R","5">>)
              => call.camera_name = <<"C","a","n","o","n"," ","E","O","S"," ","R","5">>

AbsentOrZero(exif, key) ==
    key \notin DOMAIN exif \/ exif[key] \in {PyInt(0), PyFloat(0)}

AbsentOrEmpty(exif, key) ==
    key \notin DOMAIN exif \/ exif[key] \in {PyNone, PyStr(<<>>)}

NoSettings(exif) ==
    /\ AbsentOrZero(exif, "FocalLength")
    /\ AbsentOrZero(exif, "FNumber")
    /\ AbsentOrZero(exif, "ExposureTime")
    /\ AbsentOrEmpty(exif, "ExposureTimeString")
    /\ AbsentOrZero(exif, "ISOSpeedRatings")

\* C4: when FocalLength, FNumber, ExposureTime, ExposureTimeString and
\* ISOSpeedRatings are each absent or zero, create_exif_string returns the empty
\* string as the settings line.
C4_EmptySettingsLine == LabelCall /\ NoSettings(call.exif) => call.settings_str = <<>>

C4_Witness ==
    /\ LabelCall
    /\ NoSettings(call.exif)
    /\ "FocalLength" \in DOMAIN call.exif
    /\ "ExposureTime" \in DOMAIN call.exif
    /\ "ISOSpeedRatings" \notin DOMAIN call.exif
    /\ call.settings_str = <<>>

(***************************************************************************)
(* Claims about open_image and add_frame, checked under SpecFrame          *)
(***************************************************************************)
OpenCall == call.op = "open_image" /\ call.done

FrameCall == call.op = "add_frame" /\ call.done

\* add_frame returned a path
Produced == FrameCall /\ ~call.raised /\ call.output # PyNone

\* a 1000x800 picture framed with border_size 5 and the polaroid bottom
ThousandByEightHundred ==
    /\ Produced
    /\ fs[call.output.s].frame.img_size = <<1000, 800>>
    /\ BorderRatio(call.user_options) = PyFloat(5 * (FloatScale \div 100))
    /\ PolaroidBottom(call.user_options)

\* C1 as stated: add_frame on a 1000x800 image with border ratio 0.05 and the
\* polaroid style computes a uniform border of 50, a bottom border of 180 and a
\* canvas of 1100x1030.
C1_CanvasAsStated ==
    ThousandByEightHundred =>
        /\ fs[call.output.s].frame.border_uniform = 50
        /\ fs[call.output.s].frame.border_bottom = 180
        /\ fs[call.output.s].w = 1100
        /\ fs[call.output.s].h = 1030

\* C1 amended: add_frame on a 1000x800 image with border ratio 0.05 and the
\* polaroid style takes the border from the shorter side: a uniform border of 40,
\* a bottom border of 144 and a canvas of 1080x984, the picture pasted at (40, 40).
C1_Canvas ==
    ThousandByEightHundred =>
        /\ fs[call.output.s].frame.border_uniform = 40
        /\ fs[call.output.s].frame.border_bottom = 144
        /\ fs[call.output.s].w = 1080
        /\ fs[call.output.s].h = 984
        /\ fs[call.output.s].frame.paste = <<40, 40>>

C1_Witness ==
    /\ ThousandByEightHundred
    /\ call.user_options # PyNone
    /\ "border_size" \in DOMAIN call.user_options
    /\ call.user_options["border_size"] = PyInt(5)
    /\ fs[call.output.s].w = 1080

\* C6: the path add_frame returns is the input path with its extension removed
\* followed by "_framed.jpg", in the same directory, whatever the source format;
\* /a/b/photo.CR2 gives /a/b/photo_framed.jpg.
C6_OutputPath ==
    Produced =>
        /\ \E i \in 1..Len(call.image_path) :
              /\ call.image_path[i] = "."
              /\ \A j \in (i + 1)..Len(call.image_path) :
                    call.image_path[j] \notin {".", "/"}
              /\ call.output.s = SubSeq(call.image_path, 1, i - 1) \o <<"_","f","r","a","m","e","d",".","j","p","g">>
        /\ DirOf(call.output.s) = DirOf(call.image_path)
        /\ call.output.s \in DOMAIN fs
        /\ call.image_path = <<"/","a","/","b","/","p","h","o","t","o",".","C","R","2">>
              => call.output.s = <<"/","a","/","b","/","p","h","o","t","o","_","f","r","a","m","e","d",".","j","p","g">>

C6_Witness ==
    /\ Produced
    /\ call.image_path = <<"/","a","/","b","/","p","h","o","t","o",".","C","R","2">>
    /\ call.output = PyStr(<<"/","a","/","b","/","p","h","o","t","o","_","f","r","a","m","e","d",".","j","p","g">>)
    /\ fs[call.output.s].fmt = "raster"

\* a path whose lower-cased extension is in neither list of open_image
Unsupported(path) == ExtOf(path) \notin RasterExts \cup RawExts

\* C7: for a path whose lower-cased extension is neither a supported raster one nor
\* a supported raw one, open_image returns no image and an empty mapping, and
\* add_frame returns no path, writes no file and raises nothing.
C7_UnsupportedExtension ==
    /\ OpenCall /\ Unsupported(call.file_path)
          => call.result = Opened(FALSE, NoImage, EmptyDict)
    /\ FrameCall /\ Unsupported(call.image_path)
          => /\ ~call.raised
             /\ call.output = PyNone
             /\ call.written = {}
             /\ call.opened = Opened(FALSE, NoImage, EmptyDict)

C7_Witness ==
    /\ FrameCall
    /\ call.image_path = <<"/","a","/","a","n","i","m",".","g","i","f">>
    /\ call.image_path \in DOMAIN fs
    /\ fs[call.image_path].fmt = "raster"
    /\ call.output = PyNone
    /\ call.written = {}

\* C8: open_image never raises to its caller; in the raster branch and in the raw
\* branch a read or decode failure gives an absent image.
C8_NeverRaises ==
    OpenCall => /\ ~call.result.raised
                /\ ~Decodes(fs, call.file_path, "raster")
                   /\ ~Decodes(fs, call.file_path, "raw")
                      => call.result.img = NoImage

\* C10: for every supported raster input the mapping open_image returns holds
\* only keys of the fixed vocabulary, and no key with a null value.
C10_VocabularyOnly ==
    OpenCall /\ ExtOf(call.file_path) \in RasterExts /\ ~call.result.raised
        => /\ DOMAIN call.result.exif \subseteq
                 {"Model", "Make", "LensModel", "FocalLength", "FNumber",
                  "ISOSpeedRatings", "ExposureTime", "ExposureTimeString"}
           /\ \A k \in DOMAIN call.result.exif : call.result.exif[k] # PyNone

\* C11: add_frame is all-or-nothing: either every stage succeeds and the output
\* path is returned, or a stage fails and add_frame returns an absent result
\* instead of raising; no failure of opening, compositing or saving escapes it.
C11_AllOrNothing ==
    FrameCall =>
        /\ ~call.raised
        /\ call.output = PyNone => call.written = {}
        /\ call.output # PyNone => call.written = {call.output.s}

\* C12: add_frame never overwrites its source: the output path differs from the
\* input path, also for a path without an extension and for a path that already
\* ends in "_framed.jpg", and the file at the input path is left as it was.
C12_SourceKept ==
    FrameCall =>
        /\ call.image_path \notin call.written
        /\ call.output # PyNone => call.output.s # call.image_path
        /\ Splitext(call.image_path)[2] = <<>> => call.written = {}

C12_Witness ==
    /\ FrameCall
    /\ call.image_path = <<"/","a","/","b","/","p","h","o","t","o","_","f","r","a","m","e","d",".","j","p","g">>
    /\ call.output = PyStr(<<"/","a","/","b","/","p","h","o","t","o","_","f","r","a","m","e","d","_","f","r","a","m","e","d",".","j","p","g">>)
    /\ call.written = {call.output.s}
    /\ fs[call.image_path] = CameraJpeg
(***************************************************************************)
(* Claims about the pipeline, checked under Spec                           *)
(***************************************************************************)
\* the files add_frame wrote
Cards == {p \in DOMAIN fs : fs[p].frame.by = "add_frame"}

\* what the label formatter makes of the source of the card at p
SourceLabel(p) == CreateExifString(OpenImage(fs, fs[p].frame.src).exif)

\* the texts of the card at p are the formatter's, not the user's
TextsFromMetadata(p, label) ==
    \/ ~HasOptions(fs[p].frame.options)
    \/ "camera_text" \notin DOMAIN fs[p].frame.options
    \/ /\ fs[p].frame.options["camera_text"] = PyStr(label[1])
       /\ fs[p].frame.options["settings_text"] = PyStr(label[2])

\* the source of the card at p has no usable metadata
NoUsableMetadata(label) == label[1] \in {<<>>, UnknownCamera} /\ label[2] = <<>>

\* C5: whenever extraction yields no usable metadata (the camera line empty or
\* "Unknown Camera", the settings line empty) the card's settings line is
\* "No Exif Data", for add_frame called directly and for add_frame called from
\* main through the dialog.
C5_NoBlankCard ==
    \A p \in Cards :
        /\ fs[p].frame.src \in DOMAIN fs
        /\ NoUsableMetadata(SourceLabel(p))
        /\ TextsFromMetadata(p, SourceLabel(p))
        => fs[p].frame.settings_text = NoExifData

\* the files that are no source
Derived == DOMAIN fs \ SourcePaths

\* C9: however often the pipeline is run on a source, by direct calls or through
\* main, there is at most one derived file, the source's "_framed.jpg" sibling;
\* it carries one border and is what the last run that returned a path wrote.
C9_OneBorder ==
    /\ Cardinality(Derived) <= 1
    /\ \A p \in Derived :
          /\ fs[p].layers = 1
          /\ fs[p].frame.src \in SourcePaths
          /\ p = Splitext(fs[p].frame.src)[1] \o <<"_","f","r","a","m","e","d",".","j","p","g">>
    /\ ret.op # "none" /\ ret.output # PyNone
          => /\ ret.output.s \in Derived
             /\ fs[ret.output.s].frame.src = ret.image_path
             /\ fs[ret.output.s].frame.options = ret.user_options

\* main replaced the clip with the framed output, and a later direct call on the
\* same source with other options wrote over it
C9_Witness ==
    /\ clip \in Derived
    /\ ret.op = "add_frame"
    /\ ret.output = PyStr(clip)
    /\ fs[clip].layers = 1
    /\ fs[clip].frame.options = ret.user_options
    /\ Cardinality(Derived) = 1

\* the files add_frame wrote
FramedPaths == {p \in DOMAIN fs : fs[p].frame.by = "add_frame"}

\* the options ask for the black border
AsksBlack(options) ==
    /\ options # PyNone
    /\ "border_color" \in DOMAIN options
    /\ options["border_color"] = PyStr(<<"B","l","a","c","k">>)

Colours(frame) == <<frame.border_color, frame.text_color_main, frame.text_color_sub>>

\* C21: the border colour option selects one of two paired palettes: "Black"
\* gives border (0,0,0), main text (255,255,255), sub text (200,200,200); any
\* other or missing value gives border (255,255,255), main text (0,0,0), sub
\* text (80,80,80); the text never has the colour of the border.
C21_PairedPalette ==
    \A p \in FramedPaths :
        /\ Colours(fs[p].frame)
              = IF AsksBlack(fs[p].frame.options)
                THEN << <<0, 0, 0>>, <<255, 255, 255>>, <<200, 200, 200>> >>
                ELSE << <<255, 255, 255>>, <<0, 0, 0>>, <<80, 80, 80>> >>
        /\ fs[p].frame.text_color_main # fs[p].frame.border_color
        /\ fs[p].frame.text_color_sub # fs[p].frame.border_color

\* Black was picked in the dialog and Process clicked
C21_Witness ==
    /\ ret.op = "main"
    /\ \E p \in FramedPaths :
          /\ AsksBlack(fs[p].frame.options)
          /\ "camera_text" \in DOMAIN fs[p].frame.options
          /\ fs[p].frame.border_color = <<0, 0, 0>>
          /\ fs[p].frame.text_color_main = <<255, 255, 255>>

\* a step of main() that writes a file, replaces the clip or imports into the pool
MainDelivers == pc # "idle" /\ (fs' # fs \/ clip' # clip \/ pool' # pool)

\* the step that ends the run loop with the options of the dialog: Process clicked
ProcessClicked == pc = "loop" /\ pc' = "exited" /\ user_data' # PyNone

\* what a delivering step does: one file written, the path add_frame returned,
\* and that path put in place of the clip or imported, not both
DeliversOutput ==
    /\ ret'.op = "main" /\ ret'.output # PyNone
    /\ DOMAIN fs' = DOMAIN fs \cup {ret'.output.s}
    /\ \A p \in DOMAIN fs : p # ret'.output.s => fs'[p] = fs[p]
    /\ IF hasReplaceClip
       THEN clip' = ret'.output.s /\ pool' = pool
       ELSE clip' = clip /\ pool' = pool \cup {ret'.output.s}

\* C27: main() makes the frame and replaces the clip (or imports the output where
\* there is no ReplaceClip) only after Process was clicked: closing the window or
\* Cancel ends the run with no file written and the media pool as it was, and
\* the replacement happens at most once in a run, with the path add_frame
\* returned.
C27_OnlyAfterProcess ==
    [][/\ user_data' # user_data /\ user_data' # PyNone => ProcessClicked
       /\ pc = "loop" => fs' = fs /\ clip' = clip /\ pool' = pool
       /\ MainDelivers
             => /\ pc = "exited" /\ pc' = "idle"
                /\ user_data # PyNone
                /\ DeliversOutput]_vars

\* Process was clicked on a clip without ReplaceClip and the output imported
C27_Witness ==
    /\ pc = "idle"
    /\ ret.op = "main"
    /\ ret.output # PyNone
    /\ ~hasReplaceClip
    /\ pool = {ret.output.s}
    /\ ret.output.s \in DOMAIN fs
    /\ user_data # PyNone
(***************************************************************************)
(* Claims about install.py, checked under SpecInstall                      *)
(***************************************************************************)
InstallerRan(command) == call.op = "install.py" /\ call.run.command = command

UnsupportedPlatform(env) ==
    env.system \notin {"Darwin", "Windows"} \/ (env.system = "Windows" /\ ~env.appdata)

\* what check is to detect: a missing runtime, a missing library, an unsupported
\* platform
CheckFailure(env) ==
    \/ ~env.python \/ ~env.uv \/ ~env.venv
    \/ env.missing # {}
    \/ UnsupportedPlatform(env)

\* C13: install, uninstall and check end with status 0 on success and status 1 on
\* a detected failure; check ends with 1 when a required library (PIL, rawpy,
\* exifread) is missing, when python, uv or the virtual environment is missing,
\* and when the platform is unsupported.
C13_ExitStatus ==
    /\ InstallerRan("check")
          => call.run.status = (IF CheckFailure(call.env) THEN 1 ELSE 0)
    /\ InstallerRan("uninstall")
          => call.run.status = (IF UnsupportedPlatform(call.env) THEN 1 ELSE 0)
    /\ InstallerRan("install")
          => /\ call.run.status \in {0, 1}
             /\ call.run.status = 1 => fs = call.run.before
             /\ call.run.status = 0
                   => \E p \in DOMAIN fs :
                         /\ fs[p].fmt = "script"
                         /\ fs[p].name = (EmbeddingScripts @@ SimpleScripts)[call.run.choice]

\* the scripts lying in the install directory; the runs start with none, so each
\* was written by an install run
InstalledScripts ==
    {p \in DOMAIN fs : fs[p].fmt = "script" /\ Parent(p) = GetInstallDir(call.env).path}

\* C30: after any sequence of install runs (choices 1 to 4) followed by
\* uninstall, no script file written by install remains in the install
\* directory.
C30_NothingLeft ==
    InstallerRan("uninstall") /\ call.run.status = ExitOk => InstalledScripts = {}

\* the scripts uninstall names are gone after it
C30_EmbeddingScriptsGone ==
    InstallerRan("uninstall") /\ call.run.status = ExitOk =>
        \A p \in InstalledScripts : fs[p].name \notin ScriptsToRemove
(***************************************************************************)
(* Claims about the settings batches, checked under SpecSettings           *)
(***************************************************************************)
BatchDone == call.op \in BatchScripts /\ call.done

\* the positions of the batch whose key the host rejects or fails on
RejectedAt ==
    {i \in 1..Len(call.settings) :
        call.host[call.settings[i].key] \in {PyBool(FALSE), PyNone, Raises}}

\* C14: a batch of settings attempts every key exactly once whatever was rejected
\* or raised before; a rejected key goes to the failure list and never ends the
\* batch; at the end success_count plus the failed entries is the number of
\* settings.
C14_EveryKeyOnce ==
    BatchDone =>
        /\ Len(call.calls) = Len(call.settings)
        /\ \A i \in 1..Len(call.settings) : call.calls[i][1] = call.settings[i].key
        /\ call.success_count + Len(call.failed) = Len(call.settings)
        /\ Len(call.failed) = Cardinality(RejectedAt)
        /\ \A i \in RejectedAt :
              \E j \in 1..Len(call.failed) :
                  StartsWith(call.failed[j], call.settings[i].key)

C14_Witness ==
    /\ BatchDone
    /\ Len(call.settings) = 3
    /\ call.host[call.settings[1].key] = Raises
    /\ call.host[call.settings[2].key] = PyBool(FALSE)
    /\ call.host[call.settings[3].key] = PyBool(TRUE)
    /\ call.success_count = 1
    /\ Len(call.failed) = 2
    /\ Len(call.calls) = 3
(***************************************************************************)
(* Claims about the presets, checked under SpecPresets                     *)
(***************************************************************************)
SaveDone == call.op = "presets" /\ call.last.command = "save_custom_preset"

LoadDone == call.op = "presets" /\ call.last.command = "load_presets"

CustomPath == CustomPresetsPath(call.platform)

\* the presets the file holds, readable or not
HeldIn(files, path) ==
    IF path \notin DOMAIN files THEN EmptyDict
    ELSE IF files[path].fmt = "damaged" THEN files[path].held
    ELSE IF "presets" \in DOMAIN files[path].root THEN files[path].root["presets"]
    ELSE EmptyDict

\* the save met a persistence error: the stored file could not be parsed, or the
\* file could not be written
PersistenceError ==
    \/ call.last.disk # "ok"
    \/ /\ CustomPath \in DOMAIN call.last.before
       /\ call.last.before[CustomPath].fmt = "damaged"

\* C15: a persistence error in save_custom_preset (the custom presets file
\* unparseable or unwritable) ends the save without partial state: it reports
\* failure and the stored file is left as it was, no saved preset lost or
\* truncated.
C15_CleanAbort ==
    SaveDone /\ PersistenceError =>
        /\ call.last.result = FALSE
        /\ fs = call.last.before
        /\ \A name \in DOMAIN HeldIn(call.last.before, CustomPath) :
              name \in DOMAIN HeldIn(fs, CustomPath)

\* the names of one origin as load_presets is to show them
BundledNames == DOMAIN StoredPresets(fs, DefaultPresetsPath)

CustomNames == DOMAIN StoredPresets(fs, CustomPath)

\* C16: load_presets shows every custom preset under "[Custom] " + its stored
\* name and every bundled preset under its own name; a custom and a bundled
\* preset of the same stored name are both present, and no preset of one origin
\* replaces one of the other.
C16_BothOrigins ==
    LoadDone =>
        /\ \A name \in CustomNames :
              /\ CustomPrefix \o name \in DOMAIN call.last.result
              /\ call.last.result[CustomPrefix \o name]
                    = StoredPresets(fs, CustomPath)[name]
        /\ \A name \in BundledNames :
              /\ name \in DOMAIN call.last.result
              /\ call.last.result[name] = StoredPresets(fs, DefaultPresetsPath)[name]
        /\ Cardinality(DOMAIN call.last.result)
              = Cardinality(BundledNames) + Cardinality(CustomNames)

\* every save of the run so far returned True
AllSavesSucceeded == call.op = "presets" /\ ~call.failed

\* load_presets shows, for every name saved in the run, what was saved last
\* under it
ShowsKept ==
    \A name \in DOMAIN call.kept :
        /\ CustomPrefix \o name \in DOMAIN call.last.result
        /\ call.last.result[CustomPrefix \o name] = call.kept[name]

\* load_presets shows every bundled preset as the bundled file holds it
ShowsBundled ==
    \A name \in BundledNames :
        /\ name \in DOMAIN call.last.result
        /\ call.last.result[name] = StoredPresets(fs, DefaultPresetsPath)[name]

\* C29: after any sequence of successful save_custom_preset calls, load_presets
\* holds for every saved name N the key "[Custom] N" with the description and
\* settings of the latest save under N, still holds every custom preset saved
\* earlier under another name, and holds the bundled presets unchanged.
C29_RoundTrip ==
    LoadDone /\ AllSavesSucceeded /\ call.kept # EmptyDict =>
        ShowsKept /\ ShowsBundled

\* the custom part of the round trip alone
C29_CustomRoundTrip ==
    LoadDone /\ AllSavesSucceeded => ShowsKept

\* both names were saved in the run, and load_presets was called after them
C29_Witness ==
    /\ LoadDone
    /\ AllSavesSucceeded
    /\ DOMAIN call.kept = {Ntsc, Pal}
(***************************************************************************)
(* Claims about the library path, checked under SpecLibs                   *)
(***************************************************************************)
ScriptLoaded == call.op = "add_exif_frame_dv.py" /\ call.started

EnvironIsDir == call.environ # PyNone /\ call.environ.s \in call.dirs

Embedded == call.VENV_PATH # VenvPlaceholder

EmbeddedIsDir == Embedded /\ call.VENV_PATH \in call.dirs

ExitsWithError ==
    /\ call.start.site_packages_path = PyNone
    /\ call.start.exit = SysExit(1)
    /\ Len(call.start.printed) > 0

\* C17 as stated: the variable is used when no path was embedded, the embedded
\* path is used when it was substituted and is a directory, and the script
\* prints an error and exits with status 1 when neither is a directory.
C17_AsStated ==
    ScriptLoaded =>
        /\ ~Embedded /\ EnvironIsDir => call.start.site_packages_path = call.environ
        /\ EmbeddedIsDir => call.start.site_packages_path = PyStr(call.VENV_PATH)
        /\ ~EnvironIsDir /\ ~EmbeddedIsDir => ExitsWithError

\* C17: find_site_packages uses the DAVINCI_RESOLVE_SCRIPTS_VENV variable
\* whenever it names a directory, embedded path or not; the embedded VENV_PATH
\* is used when it was substituted, is a directory and the variable names no
\* directory; when neither names a directory the script prints an error and
\* exits with status 1.
C17_Resolution ==
    ScriptLoaded =>
        /\ EnvironIsDir => call.start.site_packages_path = call.environ
        /\ ~EnvironIsDir /\ EmbeddedIsDir
              => call.start.site_packages_path = PyStr(call.VENV_PATH)
        /\ ~EnvironIsDir /\ ~EmbeddedIsDir => ExitsWithError

\* both name a directory, not the same one, and the variable's is used
C17_Witness ==
    /\ ScriptLoaded
    /\ call.environ = PyStr(OtherSitePackages)
    /\ call.VENV_PATH = SitePackages
    /\ call.dirs = {SitePackages, OtherSitePackages}
    /\ call.start.site_packages_path = PyStr(OtherSitePackages)
    /\ ~call.start.exit.exited
(***************************************************************************)
(* Claims about the borders, checked under SpecGeometry                    *)
(***************************************************************************)
GeometryDone == call.op = "geometry" /\ call.done

ShorterSide == IF call.width <= call.height THEN call.width ELSE call.height

\* n is x / d rounded to the nearest integer, a half going either way
Nearest(n, x, d) == 2 * n * d - d <= 2 * x /\ 2 * x <= 2 * n * d + d

\* n is x / d with the fraction dropped
Truncated(n, x, d) == n * d <= x /\ x < (n + 1) * d

\* C18 as stated: the uniform border is round(min(width, height) * borderRatio),
\* the bottom border is the uniform border x 3.6 with polaroid style and the
\* uniform border without.
C18_AsStated ==
    GeometryDone =>
        /\ Nearest(call.sizes.border_uniform, ShorterSide * call.border_size, 100)
        /\ IF call.polaroid_style
           THEN Nearest(call.sizes.border_bottom, call.sizes.border_uniform * 36, 10)
           ELSE call.sizes.border_bottom = call.sizes.border_uniform

\* C18: for every image size and border ratio the uniform border is
\* min(width, height) * borderRatio with the fraction dropped; the bottom border
\* is the uniform border x 3.6 with the fraction dropped when polaroid style is
\* enabled, and the uniform border otherwise.
C18_Borders ==
    GeometryDone =>
        /\ Truncated(call.sizes.border_uniform, ShorterSide * call.border_size, 100)
        /\ IF call.polaroid_style
           THEN Truncated(call.sizes.border_bottom, call.sizes.border_uniform * 36, 10)
           ELSE call.sizes.border_bottom = call.sizes.border_uniform

\* 9 x 12 at 20%: 1.8 gives a border of 1, and 1 x 3.6 a bottom border of 3
C18_Witness ==
    /\ GeometryDone
    /\ call.width = 9 /\ call.height = 12
    /\ call.border_size = 20 /\ call.polaroid_style
    /\ call.sizes.border_uniform = 1
    /\ call.sizes.border_bottom = 3

\* C19: the canvas is (width + 2 * uniform, height + uniform + bottom) and the
\* image is pasted at (uniform, uniform), so it fills the rows uniform to
\* uniform + height - 1 and touches neither the bottom band nor the left,
\* right and top borders.
C19_CanvasAndPaste ==
    GeometryDone =>
        /\ call.sizes.new_width = call.width + 2 * call.sizes.border_uniform
        /\ call.sizes.new_height
              = call.height + call.sizes.border_uniform + call.sizes.border_bottom
        /\ call.sizes.paste = <<call.sizes.border_uniform, call.sizes.border_uniform>>
        /\ call.sizes.paste[2] + call.height
              <= call.sizes.new_height - call.sizes.border_bottom
        /\ call.sizes.paste[1] + call.width
              <= call.sizes.new_width - call.sizes.border_uniform

\* 20 x 24 at 10% with polaroid style: borders 2 and 7, canvas 24 x 33
C19_Witness ==
    /\ GeometryDone
    /\ call.width = 20 /\ call.height = 24
    /\ call.border_size = 10 /\ call.polaroid_style
    /\ call.sizes.new_width = 24 /\ call.sizes.new_height = 33
    /\ call.sizes.paste = <<2, 2>>
    /\ call.sizes.border_bottom = 7
(***************************************************************************)
(* Claims about the fonts, checked under SpecFont                          *)
(***************************************************************************)
FontDone == call.op = "load_font" /\ call.last.command = "load_font"

\* the order the candidates are to be tried in
Ordered ==
    IF call.last.name = "Bold" THEN BoldCandidates \o RegularCandidates
    ELSE RegularCandidates

\* the places of the candidates that load
Loads ==
    {i \in 1..Len(Ordered) :
        Ordered[i] \in call.installed /\ (call.last.size > 0 \/ ~call.strict)}

\* C20: load_font never fails: it tries the bold candidates then the regular
\* ones for "Bold" and the regular ones for "Regular", returns the first that
\* loads and the built-in default font when none does, whatever fonts are
\* installed and whatever the size, 0 included.
C20_FontResolved ==
    FontDone =>
        /\ ~call.last.result.raised
        /\ IF Loads = {} THEN call.last.result = DefaultFont
           ELSE \E i \in Loads :
                   /\ \A j \in Loads : i <= j
                   /\ call.last.result = Font(Ordered[i], call.last.size)

\* only a regular font is installed and "Bold" is asked for
C20_Witness ==
    /\ FontDone
    /\ call.installed = {"Arial.ttf"}
    /\ call.last.name = "Bold"
    /\ call.last.size = 1
    /\ call.last.result = Font("Arial.ttf", 1)
(***************************************************************************)
(* Claims about the raw-metadata reader, checked under SpecRaw             *)
(***************************************************************************)
RawDone == call.op = "get_exif_data_raw" /\ call.done /\ ~call.read.raised

UnitFraction == call.ratio[1] = 1 /\ call.ratio[2] > 1

Abs(n) == IF n < 0 THEN -n ELSE n

\* the float is num / den, to the last digit floats are held with
IsQuotient(value, ratio) ==
    /\ value.t = "float"
    /\ (value.u < 0) => (ratio[1] < 0)
    /\ Abs(value.u) * ratio[2] <= Abs(ratio[1]) * FloatScale
    /\ Abs(ratio[1]) * FloatScale < (Abs(value.u) + 1) * ratio[2]

\* C22: in the raw-metadata path an exposure time of 1/N with N > 1 is stored as
\* ExposureTimeString = "1/N" together with ExposureTime = 1/N, every other
\* rational as ExposureTime = num/den without ExposureTimeString; the settings
\* line then shows the shutter as "1/Ns", exactly as stored.
C22_UnitFractionKept ==
    RawDone =>
        /\ "ExposureTime" \in DOMAIN call.read.data
        /\ IsQuotient(call.read.data["ExposureTime"], call.ratio)
        /\ IF UnitFraction
           THEN /\ "ExposureTimeString" \in DOMAIN call.read.data
                /\ call.read.data["ExposureTimeString"]
                      = PyStr(<<"1","/">> \o IntToStr(call.ratio[2]))
                /\ Contains(<<" ","|"," ">> \o call.read.label[2] \o <<" ","|"," ">>,
                            <<" ","|"," ","1","/">> \o IntToStr(call.ratio[2]) \o <<"s"," ","|"," ">>)
           ELSE "ExposureTimeString" \notin DOMAIN call.read.data

\* 1/250 read from a file with all its tags
C22_Witness ==
    /\ RawDone
    /\ call.ratio = <<1, 250>>
    /\ Len(call.tags) = 5
    /\ call.read.data["ExposureTimeString"] = PyStr(<<"1","/","2","5","0">>)
    /\ call.read.label[2] = <<"1","/","2","5","0","s"," ","|"," ","I","S","O"," ","4","0","0">>

\* the value of the tag of that name, when the file has one
HasTag(tags, k) == \E i \in 1..Len(tags) : tags[i].k = k

PrintableOf(tags, k) == tags[CHOOSE i \in 1..Len(tags) : tags[i].k = k].printable

\* data[key] is str() of the tag named k
TakenFrom(key, k) ==
    HasTag(call.tags, k)
        => /\ key \in DOMAIN call.read.data
           /\ call.read.data[key] = PyStr(PrintableOf(call.tags, k))

\* C26: the fuzzy key matching gives each attribute the value of its own tag:
\* with an "Image Model" tag in the file the Model is that tag's value, never
\* that of a tag whose name only holds a shorter search key ("EXIF LensModel"
\* for "Model"), in whatever order the tags are iterated; likewise for Make,
\* LensModel, ISO and the exposure time.
C26_RightTag ==
    RawDone =>
        /\ TakenFrom("Model", <<"I","m","a","g","e"," ","M","o","d","e","l">>)
        /\ TakenFrom("Make", <<"I","m","a","g","e"," ","M","a","k","e">>)
        /\ TakenFrom("LensModel", <<"E","X","I","F"," ","L","e","n","s","M","o","d","e","l">>)
        /\ TakenFrom("ISOSpeedRatings", <<"E","X","I","F"," ","I","S","O","S","p","e","e","d","R","a","t","i","n","g","s">>)
        /\ HasTag(call.tags, <<"E","X","I","F"," ","E","x","p","o","s","u","r","e","T","i","m","e">>)
              => /\ "ExposureTime" \in DOMAIN call.read.data
                 /\ IsQuotient(call.read.data["ExposureTime"], call.ratio)
(***************************************************************************)
(* Further claims about the label formatter, checked under SpecLabel       *)
(***************************************************************************)
ShutterReturned == call.op = "format_shutter_speed" /\ call.done

BelowOneSecond(speed) == GreaterThan(speed, 0) /\ LessThan(speed, 1)

\* the result is "1/" and a denominator n that stands to 1/speed as `rounding` says
IsReciprocal(result, speed, rounding(_, _, _)) ==
    \E n \in 1..FloatScale :
        /\ rounding(n, FloatScale, speed.u)
        /\ result = <<"1","/">> \o IntToStr(n)

\* what the two statements of C23 share: the display string first, nothing for a
\* speed of 0 or less, the number itself from one second on
ShutterRest ==
    /\ Truthy(call.speed_str) => call.result = call.speed_str.s
    /\ ~Truthy(call.speed_str) /\ NonPositive(call.speed) => call.result = <<>>
    /\ ~Truthy(call.speed_str) /\ ~LessThan(call.speed, 1)
          => call.result = Format(call.speed)

\* C23 as stated: format_shutter_speed prefers a non-empty display string;
\* otherwise a speed between 0 and 1 gives "1/" and round(1/speed), a speed of 0
\* or less the empty string and a speed of 1 or more the plain number.
C23_AsStated ==
    ShutterReturned =>
        /\ ShutterRest
        /\ ~Truthy(call.speed_str) /\ BelowOneSecond(call.speed)
              => IsReciprocal(call.result, call.speed, Nearest)

\* C23: format_shutter_speed prefers a non-empty display string; otherwise a
\* speed between 0 and 1 gives "1/" and 1/speed with its fraction dropped
\* (int(), not round()), a speed of 0 or less the empty string and a speed of 1
\* or more the plain number.
C23_ShutterFormat ==
    ShutterReturned =>
        /\ ShutterRest
        /\ ~Truthy(call.speed_str) /\ BelowOneSecond(call.speed)
              => IsReciprocal(call.result, call.speed, Truncated)

\* 0.6 s: 1/0.6 = 1.67 is shown as "1/1"
C23_Witness ==
    /\ ShutterReturned
    /\ call.speed = PyFloat(6000)
    /\ call.speed_str = PyNone
    /\ call.result = <<"1","/","1">>

\* the settings line between two separators, so that every token stands between two
Fenced(settings_str) == <<" ","|"," ">> \o settings_str \o <<" ","|"," ">>

HasToken(settings_str, token) == Contains(Fenced(settings_str), <<" ","|"," ">> \o token \o <<" ","|"," ">>)

\* the source value is present and not zero
Given(exif, key) == key \in DOMAIN exif /\ Truthy(exif[key])

\* C24: the settings line holds at most four tokens, focal length, aperture,
\* shutter and ISO in that order, joined by " | "; a token is there if and only
\* if its source value is present and not zero, and there is never an empty
\* token or a dangling separator, in particular no bare "s" when the exposure
\* time is negative or formats to the empty string.
C24_NoBareToken ==
    LabelCall =>
        /\ Contains(call.settings_str, <<"m","m">>) <=> Given(call.exif, "FocalLength")
        /\ Contains(call.settings_str, <<"f","/">>) <=> Given(call.exif, "FNumber")
        /\ Contains(call.settings_str, <<"I","S","O"," ">>) <=> Given(call.exif, "ISOSpeedRatings")
        /\ call.settings_str # <<>>
              => /\ ~Contains(Fenced(call.settings_str), <<" ","|"," "," ","|"," ">>)
                 /\ ~HasToken(call.settings_str, <<>>)
        /\ ~HasToken(call.settings_str, <<"s">>)

\* the lens model of the mapping, stripped, empty when there is none
LensGiven(exif) ==
    IF "LensModel" \in DOMAIN exif THEN Strip(Format(exif["LensModel"])) ELSE <<>>

\* C25: a lens model that is present and differs from the camera line is
\* appended to it with " / ", otherwise the camera line stands alone; without a
\* Model key the camera line is the sentinel "Unknown Camera", also when a Make
\* or a lens model is present.
C25_LensAndSentinel ==
    LabelCall =>
        /\ call.top_text
              = IF LensGiven(call.exif) # <<>> /\ LensGiven(call.exif) # call.camera_name
                THEN call.camera_name \o <<" ","/"," ">> \o LensGiven(call.exif)
                ELSE call.camera_name
        /\ "Model" \notin DOMAIN call.exif => call.camera_name = <<"U","n","k","n","o","w","n"," ","C","a","m","e","r","a">>
(***************************************************************************)
(* Claims about copying project settings (SpecCopy).                       *)
(***************************************************************************)
CopyRun == call.op = "copy_project_settings_dv.py"

\* the places of the log where main() called `api`
CallsOf(api) == {i \in 1..Len(call.log) : call.log[i].api = api}

Listed(name) == \E i \in 1..Len(call.host.projects) : call.host.projects[i] = name

\* the source was chosen from the list, loaded, and gave a non-empty dict, all
\* before place i of the log
SourceReady(i) ==
    /\ call.source_name # PyNone
    /\ Listed(call.source_name.s)
    /\ call.host.loads
    /\ \E l \in CallsOf("LoadProject") :
          /\ l < i
          /\ call.log[l].project = call.source_name.s
          /\ \E g \in CallsOf("GetSetting") : l < g /\ g < i
    /\ IsDict(call.host.settings)
    /\ call.host.settings.items # <<>>

\* the user confirmed the name created at place i: it is not empty and has no
\* blanks around it
NameConfirmed(i) ==
    /\ call.new_name # PyNone
    /\ call.log[i].project = call.new_name.s
    /\ call.new_name.s # <<>>
    /\ Strip(call.new_name.s) = call.new_name.s

\* the run ended at a cancelled or closed dialog, or at a failed precondition
EndedEarly ==
    /\ call.pc = "done"
    /\ \/ call.source_name = PyNone
       \/ call.new_name = PyNone

\* C28: copy-project-settings calls CreateProject at most once in a run, and
\* only after a listed project was selected, LoadProject succeeded, GetSetting
\* gave a non-empty dict and the user confirmed a non-empty trimmed name; a run
\* ended by a cancelled or closed dialog or a failed precondition has made no
\* CreateProject and no SetSetting call; every SetSetting call comes after a
\* CreateProject call that succeeded, on the project it created, and none is on
\* the source project.
C28_CreateOnceAfterChecks ==
    CopyRun =>
        /\ Cardinality(CallsOf("CreateProject")) <= 1
        /\ \A i \in CallsOf("CreateProject") : SourceReady(i) /\ NameConfirmed(i)
        /\ EndedEarly => CallsOf("CreateProject") = {} /\ CallsOf("SetSetting") = {}
        /\ \A s \in CallsOf("SetSetting") :
              /\ \E i \in CallsOf("CreateProject") :
                    /\ i < s
                    /\ call.log[s].project = call.log[i].project
                    /\ ~CreateProjectFails(call.host, call.log[i].project)
              /\ call.log[s].project # call.source_name.s

\* a run that created the project "Grade", typed between blanks, and applied
\* both settings of the source to it
C28_Witness ==
    /\ CopyRun
    /\ call.pc = "result"
    /\ Cardinality(CallsOf("CreateProject")) = 1
    /\ Cardinality(CallsOf("SetSetting")) = 2
    /\ call.new_name = PyStr(Strip(<<" ","G","r","a","d","e"," ">>))
    /\ call.success_count = 1
====
